---------------------------- MODULE Spec2Model ----------------------------
(***************************************************************************)
(* d365-odata-mcp: the OAuth2 credential store (src/auth/mod.rs) and the   *)
(* OData client's retry executor and page walker (src/odata/client.rs).    *)
(*                                                                         *)
(* Each caller is one logical async call on the shared client.  A caller   *)
(* takes one step between two suspension points (.await) of the code; the  *)
(* token endpoint and the data service are the environment and answer      *)
(* every request with any response of a small set.  Time (Instant::now())  *)
(* is the variable now, in seconds; it advances at any moment.  A sleep    *)
(* is recorded with the duration the code asked for and may end at any     *)
(* later step.                                                             *)
(***************************************************************************)
EXTENDS Integers, Sequences, FiniteSets

(***************************************************************************)
(* Bounds of the model.                                                    *)
(***************************************************************************)
\* POSTs to the token endpoint over a whole behaviour.
MaxTokenRequests == 2
\* The largest max_retries a client is constructed with.
MaxMaxRetries == 3
\* Pages one fetch_all_pages call fetches.
MaxPages == 2

\* The logical calls in flight on the one shared client.
Callers == {"c1", "c2"}
NoCaller == "none"

\* The instants (seconds) at which the clock is observed.
Instants == {0, 1, 3600}
\* expires_in values the token endpoint answers with.
ExpiresInChoices == {60, 61, 3600}
\* Status codes of the token endpoint.
TokenStatuses == {200, 201, 401, 500}
\* Those the endpoint sends with a token in the body.
TokenOkStatuses == {200, 201}
\* Status codes of the data service.
Statuses == {200, 201, 202, 204, 301, 400, 401, 403, 404, 429, 500, 503}
\* Those the service sends with a JSON body, and with a Retry-After header.
JsonStatuses == {200, 201, 202, 204}
HeaderStatuses == {429, 500, 503}
\* Response bodies of failed requests (opaque text).
ErrBodies == {"e1", "e2"}
\* Initial delays (ms) a client is constructed with.
RetryDelayChoices == {0, 500, 1000, 1500}
\* Opaque records and continuation links of the data service.
Records == {"r1", "r2"}
\* The value arrays of the pages the service sends.
PageValues == {<<>>, <<"r1">>, <<"r2", "r1">>}
Links == {"L1", "L2"}
NoLink == "nolink"
\* Text is a sequence of pieces, so that joining texts is \o.
\* ODataClient.endpoint, with the slash ODataClient::new puts at its end.
Endpoint == "https://org.example/data/"
\* ProductType
ProductTypes == {"Dataverse", "Finops"}
\* ProductType::default()
DefaultProduct == "Dataverse"
\* Entity names passed to the page fetches.
Entities == {"accounts", "contacts"}
\* Values of a Retry-After header, as character sequences.
HeaderValues == {<<"3">>, <<"1", "2">>, <<"+", "7">>, <<"3", "x">>, <<"W", "e", "d">>}

VARIABLES
    now,            \* Instant::now(), seconds
    token_cache,    \* OAuth2Auth.token_cache: Option<CachedToken>
    lock_readers,   \* callers holding the RwLock for reading
    lock_writer,    \* caller holding the RwLock for writing, or NoCaller
    max_retries,    \* ODataClient.max_retries
    retry_delay_ms, \* ODataClient.retry_delay_ms
    product,        \* ODataClient.product
    op,             \* per caller: the public operation it is running
    pc,             \* per caller: position inside the operation
    result,         \* per caller: what its last operation returned
    token_response, \* per caller: acquire_token's decoded TokenResponse
    cached,         \* per caller: acquire_token's local CachedToken
    token_answer,   \* per caller: acquire_token's response, the last answer
    bearer,         \* per caller: fetch_entity_page's local token
    attempt,        \* per caller: execute_with_retry's attempt
    delay,          \* per caller: execute_with_retry's delay (ms)
    response,       \* per caller: execute_with_retry's response, the last answer
    link_arg,       \* per caller: fetch_entity_page's next_link argument
    all_records,    \* per caller: fetch_all_pages' accumulator
    next_link,      \* per caller: fetch_all_pages' next_link
    page,           \* per caller: fetch_all_pages' page counter
    entity,         \* per caller: the entity argument of the page fetch or walk
    options,        \* per caller: the options argument of the page fetch or walk
    url,            \* per caller: fetch_entity_page's url
    call,           \* a call of a function without state: its name and arguments
    ret,            \* what that call returned
    issued,         \* token endpoint: access tokens issued so far
    token_requests, \* history: POSTs sent to the token endpoint
    decoded_at,     \* history, per caller: now when token_response was decoded
    requests,       \* history, per caller: GETs sent by the current execute call
    sleeps,         \* history, per caller: sleeps (ms) of the current operation
    statuses,       \* history, per caller: statuses the current execute call saw
    fetches,        \* history, per caller: fetch_entity_page calls of the walk
    sent,           \* history, per caller: the pages the walk decoded, in order
    clear_done,     \* history: a clear_cache has returned and no get_token began since
    after_clear,    \* history, per caller: its get_token is the first to begin after a clear_cache
    resource_arg,   \* per caller: get_token's resource argument
    issued_for,     \* token endpoint: the resource each token was issued for, in order
    server,         \* run_stdio_loop's server: Option<D365McpServer> is Some
    loop_pc,        \* run_stdio_loop: position inside the loop
    read_result,    \* run_stdio_loop: what the last read_line returned
    request,        \* run_stdio_loop's request
    rpc_response,   \* run_stdio_loop's response or error_response, to be sent
    stdout,         \* the standard output: what has been written to it, in order
    lines_in,       \* history: the lines read from the standard input, in order
    send_results    \* history: the send_response calls and what they returned

vars == <<now, token_cache, lock_readers, lock_writer, max_retries,
          retry_delay_ms, product, op, pc, result, token_response, cached,
          token_answer,
          bearer, attempt, delay, response, link_arg, all_records, next_link,
          page, entity, options, url, call, ret, issued, token_requests,
          decoded_at, requests, sleeps, statuses, fetches, sent, clear_done,
          after_clear, resource_arg, issued_for, server, loop_pc, read_result,
          request, rpc_response, stdout, lines_in, send_results>>

storeVars == <<token_cache, lock_readers, lock_writer, token_response, cached,
               issued, issued_for, token_requests, decoded_at>>
authVars == <<storeVars, token_answer>>
execVars == <<attempt, delay, response, requests, sleeps, statuses>>
walkVars == <<link_arg, all_records, next_link, page, entity, options, url,
              fetches, sent>>
confVars == <<max_retries, retry_delay_ms, product>>
loopVars == <<server, loop_pc, read_result, request, rpc_response, stdout,
              lines_in, send_results>>
pureVars == <<call, ret>>
entryVars == <<clear_done, after_clear, resource_arg>>
clientVars == <<now, authVars, execVars, walkVars, confVars, pureVars, entryVars,
                op, pc, result, bearer>>

(***************************************************************************)
(* Values.                                                                 *)
(***************************************************************************)
\* Option<CachedToken>: None, and Some(CachedToken {access_token, expires_at}).
None == [some |-> FALSE, access_token |-> 0, expires_at |-> 0]
Some(t) == [some |-> TRUE, access_token |-> t.access_token,
            expires_at |-> t.expires_at]

NoTokenResponse == [access_token |-> 0, expires_in |-> 0]
NoCached == [access_token |-> 0, expires_at |-> 0]
\* No answer of the token endpoint at hand.
NoTokenAnswer == [transport_ok |-> FALSE, status |-> 0, decodable |-> FALSE,
                  expires_in |-> 0, body |-> "none"]

\* Result<_, AuthError> and Result<_, ODataError>, one shape for all.
\*   kind    "None" (nothing returned yet), "Ok", or the error variant
\*   token   Ok(String) of get_token
\*   status  ServerError.0, and the status inside TokenRequestFailed
\*   body    ServerError.1, NotFound.0, and the body inside TokenRequestFailed
\*   secs    RateLimited.0
\*   records Ok(Vec<Value>) of fetch_all_pages, Ok(ODataResponse).value
\*   link    Ok(ODataResponse).next_link
\*   auth    the AuthError variant inside ODataError::AuthError
Res(kind, token, status, body, secs, records, link, auth) ==
    [kind |-> kind, token |-> token, status |-> status, body |-> body,
     secs |-> secs, records |-> records, link |-> link, auth |-> auth]
NoResult == Res("None", 0, 0, "", 0, <<>>, NoLink, "")
OkToken(t) == Res("Ok", t, 0, "", 0, <<>>, NoLink, "")
OkResponse(st) == Res("Ok", 0, st, "", 0, <<>>, NoLink, "")
OkPage(p) == Res("Ok", 0, 0, "", 0, p.value, p.next_link, "")
OkRecords(rs) == Res("Ok", 0, 0, "", 0, rs, NoLink, "")
OkUnit == Res("Ok", 0, 0, "", 0, <<>>, NoLink, "")
OkText(t) == Res("Ok", 0, 0, t, 0, <<>>, NoLink, "")
Err(kind) == Res(kind, 0, 0, "", 0, <<>>, NoLink, "")
TokenRequestFailed(st, b) == Res("TokenRequestFailed", 0, st, b, 0, <<>>, NoLink, "")
RateLimited(s) == Res("RateLimited", 0, 0, "", s, <<>>, NoLink, "")
ServerError(st, b) == Res("ServerError", 0, st, b, 0, <<>>, NoLink, "")
NotFound(b) == Res("NotFound", 0, 0, b, 0, <<>>, NoLink, "")
\* ODataError::AuthError(e), by #[from]
AuthErrorOf(e) == Res("AuthError", 0, e.status, e.body, 0, <<>>, NoLink, e.kind)


Upd(f, c, v) == [f EXCEPT ![c] = v]

\* An Option of a text or of a list of texts, and an Option<usize>.
Absent == [some |-> FALSE, v |-> <<>>]
Present(v) == [some |-> TRUE, v |-> v]
AbsentNum == [some |-> FALSE, v |-> 0]

\* QueryOptions::default()
DefaultOptions ==
    [select |-> Absent, filter |-> Absent, top |-> AbsentNum, skip |-> AbsentNum,
     orderby |-> Absent, expand |-> Absent, cross_company |-> FALSE, count |-> FALSE]

\* No call of a function without state, and no return value yet.
NoCall == [fn |-> "none"]
NoReturn == [done |-> FALSE, value |-> <<>>]
Returned(v) == [done |-> TRUE, value |-> v]

\* ODataClient::resource(): scheme and host of the endpoint.
ClientResource == <<"https://org.example">>
NoResource == <<>>

\* No entity argument, no url: the caller is not fetching.
NoEntity == "noentity"
NoUrl == <<>>

(***************************************************************************)
(* How a caller's step ends.                                               *)
(***************************************************************************)
\* The step stays inside the operation.
Goto(c, label) ==
    /\ pc' = Upd(pc, c, label)
    /\ UNCHANGED <<result, bearer, walkVars>>

\* A return that hands the records gathered so far over with the result.
DoneWithRecords(c, res) ==
    /\ pc' = Upd(pc, c, "idle")
    /\ result' = Upd(result, c, [res EXCEPT !.records = all_records[c] \o res.records])
    /\ bearer' = Upd(bearer, c, 0)
    /\ link_arg' = Upd(link_arg, c, NoLink)
    /\ all_records' = Upd(all_records, c, <<>>)
    /\ next_link' = Upd(next_link, c, NoLink)
    /\ page' = Upd(page, c, 0)
    /\ entity' = Upd(entity, c, NoEntity)
    /\ options' = Upd(options, c, DefaultOptions)
    /\ url' = Upd(url, c, NoUrl)
    /\ UNCHANGED <<fetches, sent>>

\* The public operation returns res to its caller; its locals are dropped.
Done(c, res) ==
    /\ pc' = Upd(pc, c, "idle")
    /\ result' = Upd(result, c, res)
    /\ bearer' = Upd(bearer, c, 0)
    /\ link_arg' = Upd(link_arg, c, NoLink)
    /\ all_records' = Upd(all_records, c, <<>>)
    /\ next_link' = Upd(next_link, c, NoLink)
    /\ page' = Upd(page, c, 0)
    /\ entity' = Upd(entity, c, NoEntity)
    /\ options' = Upd(options, c, DefaultOptions)
    /\ url' = Upd(url, c, NoUrl)
    /\ UNCHANGED <<fetches, sent>>

\* An extend that puts the new page in front.
ExtendFront(acc, value) == value \o acc

\* all_records.extend(response.value)
Extend(acc, value) == acc \o value

\* A loop that never breaks.
WalkContinuesAlways(link) == TRUE

\* match response.next_link: Some(link) goes round the loop, None breaks
WalkContinues(link) == link # NoLink

\* A decoded ODataResponse as a page: its records and its next_link.
PageOf(res) == [value |-> res.records, next_link |-> res.link]

\* fetch_entity_page returns res: to the caller of the public operation, or
\* into fetch_all_pages' loop body.
FetchEntityPageReturns(c, res) ==
    IF op[c] # "fetch_all_pages" \/ res.kind # "Ok"
    THEN Done(c, res)
    ELSE IF WalkContinues(res.link)
         THEN /\ pc' = Upd(pc, c, "fa_loop")
              /\ all_records' = Upd(all_records, c, Extend(all_records[c], res.records))
              /\ next_link' = Upd(next_link, c, res.link)
              /\ sent' = Upd(sent, c, Append(sent[c], PageOf(res)))
              /\ url' = Upd(url, c, NoUrl)
              /\ UNCHANGED <<result, bearer, link_arg, page, entity, options, fetches>>
         ELSE /\ pc' = Upd(pc, c, "idle")
              /\ result' = Upd(result, c, OkRecords(Extend(all_records[c], res.records)))
              /\ bearer' = Upd(bearer, c, 0)
              /\ link_arg' = Upd(link_arg, c, NoLink)
              /\ all_records' = Upd(all_records, c, <<>>)
              /\ next_link' = Upd(next_link, c, NoLink)
              /\ page' = Upd(page, c, 0)
              /\ entity' = Upd(entity, c, NoEntity)
              /\ options' = Upd(options, c, DefaultOptions)
              /\ url' = Upd(url, c, NoUrl)
              /\ sent' = Upd(sent, c, Append(sent[c], PageOf(res)))
              /\ UNCHANGED fetches

\* execute_with_retry returns res.
ExecuteReturns(c, res) ==
    IF op[c] = "execute"
    THEN Done(c, res)
    ELSE IF res.kind = "Ok"
         THEN Goto(c, "fp_decode")
         ELSE FetchEntityPageReturns(c, res)

\* A page fetch that calls get_token again when it fails.
GetTokenReturnsRetrying(c, res) ==
    IF op[c] = "get_token"
    THEN Done(c, res)
    ELSE IF res.kind = "Ok"
         THEN /\ pc' = Upd(pc, c, IF op[c] = "fetch_metadata"
                                  THEN "md_send" ELSE "ex_enter")
              /\ bearer' = Upd(bearer, c, res.token)
              /\ UNCHANGED <<result, walkVars>>
         ELSE Goto(c, "gt_lock")

\* get_token returns res.
GetTokenReturns(c, res) ==
    IF op[c] = "get_token"
    THEN Done(c, res)
    ELSE IF res.kind = "Ok"
         THEN /\ pc' = Upd(pc, c, IF op[c] = "fetch_metadata"
                                  THEN "md_send" ELSE "ex_enter")
              /\ bearer' = Upd(bearer, c, res.token)
              /\ UNCHANGED <<result, walkVars>>
         ELSE FetchEntityPageReturns(c, AuthErrorOf(res))

(***************************************************************************)
(* Credential store: src/auth/mod.rs                                       *)
(***************************************************************************)
\* Duration::from_secs(60) of is_valid
Margin == 60

\* is_valid with the comparison turned round.
is_valid_reversed(ct, t) == ct.expires_at < t + Margin

\* is_valid with a margin that lets the boundary instant through.
is_valid_inclusive(ct, t) == ct.expires_at >= t + Margin

\* CachedToken::is_valid at instant t
is_valid(ct, t) == ct.expires_at > t + Margin

\* A cache check that takes any cached token, usable or not.
CacheHitStale(cache, t) == cache.some

\* get_token's cache check: Some(cached) with cached.is_valid()
CacheHit(cache, t) == cache.some /\ is_valid(cache, t)

\* A success test that knows 200 only.
IsSuccessOnlyOk(st) == st = 200

\* reqwest's StatusCode::is_success
IsSuccess(st) == st >= 200 /\ st <= 299

\* acquire_token's CachedToken from the decoded response, at instant t
NewCachedToken(tr, t) ==
    [access_token |-> tr.access_token, expires_at |-> t + tr.expires_in]

\* A store that overwrites the bearer string of an entry and keeps its expiry.
StoreTokenKeepExpiry(cache, ct) ==
    IF cache.some
    THEN [some |-> TRUE, access_token |-> ct.access_token,
          expires_at |-> cache.expires_at]
    ELSE Some(ct)

\* *cache = Some(cached)
StoreToken(cache, ct) == Some(ct)

\* AuthType, and the AuthConfig values of the model.
AuthTypes == {"AzureAd", "Adfs"}
AuthConfigs ==
    [auth_type : AuthTypes,
     tenant_id : {"contoso", "sts.example"},
     client_id : {<<"client-1">>},
     client_secret : {<<"s3cret">>},
     token_url : {Absent, Present(<<"https://sts.example/custom/token">>)},
     resource : {Absent, Present(<<"https://configured.example">>)}]

\* A token endpoint that takes the configured url for every variant.
token_endpoint_configured_first(cfg) ==
    IF cfg.token_url.some
    THEN cfg.token_url.v
    ELSE IF cfg.auth_type = "Adfs"
         THEN <<"https://", cfg.tenant_id, "/adfs/oauth2/token">>
         ELSE <<"https://login.microsoftonline.com/", cfg.tenant_id,
                "/oauth2/v2.0/token">>

\* OAuth2Auth::token_endpoint
token_endpoint(cfg) ==
    CASE cfg.auth_type = "Adfs" ->
           IF cfg.token_url.some
           THEN cfg.token_url.v
           ELSE <<"https://", cfg.tenant_id, "/adfs/oauth2/token">>
      [] cfg.auth_type = "AzureAd" ->
           <<"https://login.microsoftonline.com/", cfg.tenant_id,
             "/oauth2/v2.0/token">>

\* resource.ends_with('/'); a slash is always a piece of its own.
EndsWithSlash(text) == text # <<>> /\ text[Len(text)] = "/"

\* A scope that always gets the whole suffix.
ScopeOfAppended(resource) == resource \o <<"/", ".default">>

\* acquire_token's scope for the AzureAd variant
ScopeOf(resource) ==
    IF EndsWithSlash(resource)
    THEN resource \o <<".default">>
    ELSE resource \o <<"/", ".default">>

\* acquire_token's params: the form body, a list of (name, value)
TokenParams(cfg, resource) ==
    CASE cfg.auth_type = "AzureAd" ->
           << <<"grant_type", <<"client_credentials">> >>,
              <<"client_id", cfg.client_id>>,
              <<"client_secret", cfg.client_secret>>,
              <<"scope", ScopeOf(resource)>> >>
      [] cfg.auth_type = "Adfs" ->
           << <<"grant_type", <<"client_credentials">> >>,
              <<"client_id", cfg.client_id>>,
              <<"client_secret", cfg.client_secret>>,
              <<"resource", IF cfg.resource.some THEN cfg.resource.v ELSE resource>> >>

\* What the token endpoint answers to one POST.
TokenEndpointResponses ==
    [transport_ok : {FALSE}, status : {0}, decodable : {FALSE},
     expires_in : {0}, body : {""}]
    \cup [transport_ok : {TRUE}, status : TokenStatuses \ TokenOkStatuses,
          decodable : {FALSE}, expires_in : {0}, body : ErrBodies]
    \cup [transport_ok : {TRUE}, status : TokenOkStatuses,
          decodable : {FALSE}, expires_in : {0}, body : {""}]
    \cup [transport_ok : {TRUE}, status : TokenOkStatuses,
          decodable : {TRUE}, expires_in : ExpiresInChoices, body : {""}]

\* The clock advances.
Tick ==
    /\ \E t \in Instants : t > now /\ now' = t
    /\ UNCHANGED <<authVars, execVars, walkVars, confVars, loopVars, pureVars, entryVars, op, pc, result, bearer>>

\* get_token(res) begins: it is the first call since clear_cache returned,
\* or it is not.
GetTokenBegins(c, res) ==
    /\ resource_arg' = Upd(resource_arg, c, res)
    /\ after_clear' = Upd(after_clear, c, clear_done)
    /\ clear_done' = FALSE
    /\ token_answer' = Upd(token_answer, c, NoTokenAnswer)

\* A caller calls get_token(resource) with a resource of ress.
CallGetTokenWith(c, ress) ==
    /\ pc[c] = "idle"
    /\ op' = Upd(op, c, "get_token")
    /\ pc' = Upd(pc, c, "gt_lock")
    /\ result' = Upd(result, c, NoResult)
    /\ \E res \in ress : GetTokenBegins(c, res)
    /\ UNCHANGED <<now, storeVars, execVars, walkVars, confVars, loopVars, pureVars, bearer>>

\* get_token(&self.resource()), the call every operation of the client makes
Call_get_token(c) == CallGetTokenWith(c, {ClientResource})

\* get_token: self.token_cache.read().await
GT_ReadLock(c) ==
    /\ pc[c] = "gt_lock"
    /\ lock_writer = NoCaller
    /\ lock_readers' = lock_readers \cup {c}
    /\ Goto(c, "gt_check")
    /\ UNCHANGED <<now, token_cache, lock_writer, token_response, cached, token_answer, issued, issued_for,
                   token_requests, decoded_at, execVars, confVars, loopVars, pureVars, entryVars, op>>

\* A cache check that keeps its read guard when it goes on to acquire_token.
GT_CheckKeepsGuard(c) ==
    /\ pc[c] = "gt_check"
    /\ IF CacheHit(token_cache, now)
       THEN /\ lock_readers' = lock_readers \ {c}
            /\ GetTokenReturns(c, OkToken(token_cache.access_token))
       ELSE /\ lock_readers' = lock_readers
            /\ Goto(c, "ac_post")
    /\ UNCHANGED <<now, token_cache, lock_writer, token_response, cached, token_answer, issued, issued_for,
                   token_requests, decoded_at, execVars, confVars, loopVars, pureVars, entryVars, op>>

\* get_token: the block under the read guard, to the return or to the call
\* of acquire_token.
GT_Check(c) ==
    /\ pc[c] = "gt_check"
    /\ lock_readers' = lock_readers \ {c}
    /\ IF CacheHit(token_cache, now)
       THEN GetTokenReturns(c, OkToken(token_cache.access_token))
       ELSE Goto(c, "ac_post")
    /\ UNCHANGED <<now, token_cache, lock_writer, token_response, cached, token_answer, issued, issued_for,
                   token_requests, decoded_at, execVars, confVars, loopVars, pureVars, entryVars, op>>

\* acquire_token: the POST to the token endpoint is sent.
AC_Post(c) ==
    /\ pc[c] = "ac_post"
    /\ token_requests < MaxTokenRequests
    /\ token_requests' = token_requests + 1
    /\ Goto(c, "ac_wait")
    /\ UNCHANGED <<now, token_cache, lock_readers, lock_writer, token_response,
                   cached, token_answer, issued, issued_for, decoded_at, execVars, confVars, loopVars, pureVars, entryVars, op>>

\* acquire_token: the answer, one of rs, arrives; failures return, a decoded
\* answer becomes the local CachedToken.
AC_ReceiveFrom(c, rs) ==
    /\ pc[c] = "ac_wait"
    /\ \E r \in rs :
         /\ token_answer' = Upd(token_answer, c, r)
         /\ IF ~r.transport_ok
            THEN /\ GetTokenReturns(c, Err("HttpError"))
                 /\ UNCHANGED <<token_response, cached, issued, issued_for, decoded_at>>
            ELSE IF ~IsSuccess(r.status)
            THEN /\ GetTokenReturns(c, TokenRequestFailed(r.status, r.body))
                 /\ UNCHANGED <<token_response, cached, issued, issued_for, decoded_at>>
            ELSE IF ~r.decodable
            THEN /\ GetTokenReturns(c, Err("ParseError"))
                 /\ UNCHANGED <<token_response, cached, issued, issued_for, decoded_at>>
            ELSE LET tr == [access_token |-> issued + 1, expires_in |-> r.expires_in]
                 IN  /\ issued' = issued + 1
                     /\ issued_for' = Append(issued_for, resource_arg[c])
                     /\ token_response' = Upd(token_response, c, tr)
                     /\ cached' = Upd(cached, c, NewCachedToken(tr, now))
                     /\ decoded_at' = Upd(decoded_at, c, now)
                     /\ Goto(c, "ac_wlock")
    /\ UNCHANGED <<now, token_cache, lock_readers, lock_writer, token_requests,
                   execVars, confVars, loopVars, pureVars, entryVars, op>>

\* The token endpoint answers with any of its responses.
AC_Receive(c) == AC_ReceiveFrom(c, TokenEndpointResponses)

\* acquire_token: self.token_cache.write().await
AC_WriteLock(c) ==
    /\ pc[c] = "ac_wlock"
    /\ lock_writer = NoCaller /\ lock_readers = {}
    /\ lock_writer' = c
    /\ Goto(c, "ac_store")
    /\ UNCHANGED <<now, token_cache, lock_readers, token_response, cached, token_answer, issued, issued_for,
                   token_requests, decoded_at, execVars, confVars, loopVars, pureVars, entryVars, op>>

\* acquire_token: the block under the write guard, and the return.
AC_Store(c) ==
    /\ pc[c] = "ac_store"
    /\ token_cache' = StoreToken(token_cache, cached[c])
    /\ lock_writer' = NoCaller
    /\ GetTokenReturns(c, OkToken(token_response[c].access_token))
    /\ token_response' = Upd(token_response, c, NoTokenResponse)
    /\ cached' = Upd(cached, c, NoCached)
    /\ decoded_at' = Upd(decoded_at, c, 0)
    /\ token_answer' = Upd(token_answer, c, NoTokenAnswer)
    /\ UNCHANGED <<now, lock_readers, issued, issued_for, token_requests, execVars, confVars, loopVars,
                   pureVars, entryVars, op>>

\* A caller calls clear_cache().
Call_clear_cache(c) ==
    /\ pc[c] = "idle"
    /\ op' = Upd(op, c, "clear_cache")
    /\ pc' = Upd(pc, c, "cc_lock")
    /\ result' = Upd(result, c, NoResult)
    /\ token_answer' = Upd(token_answer, c, NoTokenAnswer)
    /\ UNCHANGED <<now, storeVars, execVars, walkVars, confVars, loopVars, pureVars, entryVars, bearer>>

\* clear_cache: self.token_cache.write().await
CC_WriteLock(c) ==
    /\ pc[c] = "cc_lock"
    /\ lock_writer = NoCaller /\ lock_readers = {}
    /\ lock_writer' = c
    /\ Goto(c, "cc_clear")
    /\ UNCHANGED <<now, token_cache, lock_readers, token_response, cached, token_answer, issued, issued_for,
                   token_requests, decoded_at, execVars, confVars, loopVars, pureVars, entryVars, op>>

\* clear_cache: *cache = None, and the return.
CC_Clear(c) ==
    /\ pc[c] = "cc_clear"
    /\ token_cache' = None
    /\ lock_writer' = NoCaller
    /\ Done(c, OkUnit)
    /\ clear_done' = TRUE
    /\ UNCHANGED <<now, lock_readers, token_response, cached, token_answer, issued, issued_for,
                   token_requests, decoded_at, execVars, confVars, loopVars, pureVars,
                   after_clear, resource_arg, op>>

(***************************************************************************)
(* Retry executor: src/odata/client.rs, execute_with_retry                 *)
(***************************************************************************)
\* A header of the response: absent, or present with a value.
NoHeader == [present |-> FALSE, value |-> <<>>]
Header(v) == [present |-> TRUE, value |-> v]

\* A response body: JSON that decodes into an ODataResponse (value,
\* next_link), or text that does not.
NoBody == [decodable |-> FALSE, value |-> <<>>, next_link |-> NoLink, text |-> ""]
TextBody(t) == [decodable |-> FALSE, value |-> <<>>, next_link |-> NoLink, text |-> t]
PageBodies == [decodable : {TRUE}, value : PageValues,
               next_link : Links \cup {NoLink}, text : {""}]

NoResponse == [transport_ok |-> FALSE, status |-> 0, retry_after |-> NoHeader,
               body |-> NoBody]

\* A test that takes the client errors for server errors too.
IsAnyError(st) == st >= 400 /\ st <= 599

\* reqwest's StatusCode::is_server_error
IsServerError(st) == st >= 500 /\ st <= 599

\* What the data service answers to one GET.
HttpResponses ==
    {NoResponse}
    \cup [transport_ok : {TRUE}, status : JsonStatuses,
          retry_after : {NoHeader}, body : PageBodies \cup {TextBody("")}]
    \cup [transport_ok : {TRUE}, status : HeaderStatuses,
          retry_after : {NoHeader} \cup {Header(v) : v \in HeaderValues},
          body : {TextBody(t) : t \in ErrBodies}]
    \cup [transport_ok : {TRUE}, status : Statuses \ (JsonStatuses \cup HeaderStatuses),
          retry_after : {NoHeader}, body : {TextBody(t) : t \in ErrBodies}]

\* The decimal digits and their values.
DigitChars == {"0", "1", "2", "3", "4", "5", "6", "7", "8", "9"}
DigitValue(ch) ==
    CASE ch = "0" -> 0 [] ch = "1" -> 1 [] ch = "2" -> 2 [] ch = "3" -> 3
      [] ch = "4" -> 4 [] ch = "5" -> 5 [] ch = "6" -> 6 [] ch = "7" -> 7
      [] ch = "8" -> 8 [] ch = "9" -> 9

\* The number a digit sequence denotes.
RECURSIVE DecimalValue(_)
DecimalValue(str) ==
    IF str = <<>> THEN 0
    ELSE 10 * DecimalValue(SubSeq(str, 1, Len(str) - 1)) + DigitValue(str[Len(str)])

\* The digits of an unsigned number: str::parse drops one leading plus sign.
Digits(str) == IF str # <<>> /\ str[1] = "+" THEN Tail(str) ELSE str

\* v.parse::<u64>().ok(): a non-empty sequence of digits, after an optional
\* plus sign, parses.
ParsesAsU64(str) ==
    Digits(str) # <<>> /\ \A i \in 1..Len(Digits(str)) : Digits(str)[i] \in DigitChars

\* retry_after of the 429 arm: the header when it parses, else delay / 1000.
RetryAfter(h, d) ==
    IF h.present /\ ParsesAsU64(h.value)
    THEN DecimalValue(Digits(h.value))
    ELSE d \div 1000

\* The test of the budget, one attempt late.
ExhaustedLate(att, maxr) == att > maxr

\* attempt >= self.max_retries
Exhausted(att, maxr) == att >= maxr

\* A delay that is never doubled.
DoubleNot(d) == d

\* delay *= 2
Double(d) == d * 2

\* The width of u64, the type of delay and retry_delay_ms.
U64Bits == 64

\* The bits of n, the lowest first, in w places.
RECURSIVE ToBits(_, _)
ToBits(n, w) == IF w = 0 THEN <<>> ELSE <<n % 2>> \o ToBits(n \div 2, w - 1)

\* k zero bits.
Zeros(k) == [i \in 1..k |-> 0]

\* A u64 of the value base * 2^shift, as its bits.
U64(base, shift) == SubSeq(Zeros(shift) \o ToBits(base, U64Bits), 1, U64Bits)

\* delay *= 2 done k times on a u64.  A product that does not fit panics in
\* a build with overflow checks and loses its top bit in a build without.
RECURSIVE DoubleTimes(_, _, _)
DoubleTimes(bits, k, overflow_checks) ==
    IF k = 0 THEN [panicked |-> FALSE, bits |-> bits]
    ELSE IF bits[U64Bits] = 1 /\ overflow_checks
         THEN [panicked |-> TRUE, bits |-> <<>>]
         ELSE DoubleTimes(SubSeq(<<0>> \o bits, 1, U64Bits), k - 1, overflow_checks)

\* A match that retries 404 like a server error.
ArmRetries404(st) ==
    IF st \in {200, 201, 204} THEN "success"
    ELSE IF st = 429 THEN "too_many_requests"
    ELSE IF st = 404 \/ IsServerError(st) THEN "server_error"
    ELSE "other"

\* A match whose first arm is status.is_success().
ArmIsSuccess(st) ==
    IF IsSuccess(st) THEN "success"
    ELSE IF st = 429 THEN "too_many_requests"
    ELSE IF st = 404 THEN "not_found"
    ELSE IF IsServerError(st) THEN "server_error"
    ELSE "other"

\* The arm of `match response.status()` a status takes.
Arm(st) ==
    IF st \in {200, 201, 204} THEN "success"
    ELSE IF st = 429 THEN "too_many_requests"
    ELSE IF st = 404 THEN "not_found"
    ELSE IF IsServerError(st) THEN "server_error"
    ELSE "other"

\* sleep(Duration::from_secs(retry_after)), in ms
SleepOf429(h, d) == RetryAfter(h, d) * 1000
\* A 5xx sleep in whole seconds, like the 429 arm's.
SleepOf5xxWholeSeconds(d) == (d \div 1000) * 1000

\* sleep(Duration::from_millis(delay)), in ms
SleepOf5xx(d) == d

\* execute_with_retry returns: its locals, and the history of the call with
\* seen as the statuses it saw.  A call made from inside another operation
\* leaves nothing behind but the sleeps it made.
ExecLocalsAtReturn(c, seen) ==
    IF op[c] = "execute"
    THEN /\ statuses' = Upd(statuses, c, seen)
         /\ UNCHANGED <<attempt, delay, requests, sleeps>>
    ELSE /\ statuses' = Upd(statuses, c, <<>>)
         /\ attempt' = Upd(attempt, c, 0)
         /\ delay' = Upd(delay, c, 0)
         /\ requests' = Upd(requests, c, 0)
         /\ UNCHANGED sleeps

\* A caller calls execute_with_retry(url, token).
Call_execute(c) ==
    /\ pc[c] = "idle"
    /\ op' = Upd(op, c, "execute")
    /\ pc' = Upd(pc, c, "ex_enter")
    /\ result' = Upd(result, c, NoResult)
    /\ attempt' = Upd(attempt, c, 0)
    /\ delay' = Upd(delay, c, 0)
    /\ requests' = Upd(requests, c, 0)
    /\ sleeps' = Upd(sleeps, c, <<>>)
    /\ statuses' = Upd(statuses, c, <<>>)
    /\ response' = Upd(response, c, NoResponse)
    /\ UNCHANGED <<now, authVars, walkVars, confVars, loopVars, pureVars, entryVars, bearer>>

\* An executor whose attempts count on from the retries the operation has
\* made before this call.
Exec_EnterCountsOn(c) ==
    /\ pc[c] = "ex_enter"
    /\ attempt' = Upd(attempt, c, Len(sleeps[c]) + 1)
    /\ delay' = Upd(delay, c, retry_delay_ms)
    /\ requests' = Upd(requests, c, 1)
    /\ Goto(c, "ex_wait")
    /\ UNCHANGED <<now, authVars, response, sleeps, statuses, confVars, loopVars, pureVars, entryVars, op>>

\* An executor that empties the token cache as it begins.
Exec_EnterClears(c) ==
    /\ pc[c] = "ex_enter"
    /\ attempt' = Upd(attempt, c, 0 + 1)
    /\ delay' = Upd(delay, c, retry_delay_ms)
    /\ requests' = Upd(requests, c, 1)
    /\ Goto(c, "ex_wait")
    /\ token_cache' = None
    /\ UNCHANGED <<now, lock_readers, lock_writer, token_response, cached,
                   issued, issued_for, token_requests, decoded_at, token_answer,
                   response, sleeps, statuses, confVars, loopVars, pureVars, entryVars, op>>

\* execute_with_retry: attempt = 0, delay = retry_delay_ms, then the first
\* pass of the loop up to the GET being sent.
Exec_Enter(c) ==
    /\ pc[c] = "ex_enter"
    /\ attempt' = Upd(attempt, c, 0 + 1)
    /\ delay' = Upd(delay, c, retry_delay_ms)
    /\ requests' = Upd(requests, c, 1)
    /\ Goto(c, "ex_wait")
    /\ UNCHANGED <<now, authVars, response, sleeps, statuses, confVars, loopVars, pureVars, entryVars, op>>

\* execute_with_retry: the answer, one of rs, arrives and is matched.
Exec_ReceiveFrom(c, rs) ==
    /\ pc[c] = "ex_wait"
    /\ \E r \in rs :
         LET seen == Append(statuses[c], [status |-> r.status,
                                          retry_after |-> r.retry_after.present])
         IN
         /\ response' = Upd(response, c, r)
         /\ IF ~r.transport_ok
            THEN /\ ExecuteReturns(c, Err("HttpError"))
                 /\ ExecLocalsAtReturn(c, statuses[c])
            ELSE
            CASE Arm(r.status) = "success" ->
                   /\ ExecuteReturns(c, OkResponse(r.status))
                   /\ ExecLocalsAtReturn(c, seen)
              [] Arm(r.status) = "too_many_requests" ->
                   IF Exhausted(attempt[c], max_retries)
                   THEN /\ ExecuteReturns(c, RateLimited(RetryAfter(r.retry_after, delay[c])))
                        /\ ExecLocalsAtReturn(c, seen)
                   ELSE /\ sleeps' = Upd(sleeps, c,
                               Append(sleeps[c], SleepOf429(r.retry_after, delay[c])))
                        /\ statuses' = Upd(statuses, c, seen)
                        /\ Goto(c, "ex_sleep")
                        /\ UNCHANGED <<attempt, delay, requests>>
              [] Arm(r.status) = "not_found" ->
                   /\ ExecuteReturns(c, NotFound(r.body.text))
                   /\ ExecLocalsAtReturn(c, seen)
              [] Arm(r.status) = "server_error" ->
                   IF Exhausted(attempt[c], max_retries)
                   THEN /\ ExecuteReturns(c, ServerError(r.status, r.body.text))
                        /\ ExecLocalsAtReturn(c, seen)
                   ELSE /\ sleeps' = Upd(sleeps, c, Append(sleeps[c], SleepOf5xx(delay[c])))
                        /\ statuses' = Upd(statuses, c, seen)
                        /\ Goto(c, "ex_sleep")
                        /\ UNCHANGED <<attempt, delay, requests>>
              [] Arm(r.status) = "other" ->
                   /\ ExecuteReturns(c, ServerError(r.status, r.body.text))
                   /\ ExecLocalsAtReturn(c, seen)
    /\ UNCHANGED <<now, authVars, confVars, loopVars, pureVars, entryVars, op>>

\* An executor that asks the store for a token again before every retry.
Exec_WakeCallsGetToken(c) ==
    /\ pc[c] = "ex_sleep"
    /\ delay' = Upd(delay, c, delay[c] * 2)
    /\ attempt' = Upd(attempt, c, attempt[c] + 1)
    /\ requests' = Upd(requests, c, requests[c] + 1)
    /\ Goto(c, IF op[c] = "execute" THEN "ex_wait" ELSE "gt_lock")
    /\ UNCHANGED <<now, authVars, response, sleeps, statuses, confVars, loopVars, pureVars, entryVars, op>>

\* execute_with_retry: the sleep ends; delay *= 2, and the next pass of the
\* loop up to the GET being sent.
Exec_Wake(c) ==
    /\ pc[c] = "ex_sleep"
    /\ delay' = Upd(delay, c, Double(delay[c]))
    /\ attempt' = Upd(attempt, c, attempt[c] + 1)
    /\ requests' = Upd(requests, c, requests[c] + 1)
    /\ Goto(c, "ex_wait")
    /\ UNCHANGED <<now, authVars, response, sleeps, statuses, confVars, loopVars, pureVars, entryVars, op>>

(***************************************************************************)
(* Query builder: src/odata/client.rs, QueryOptions::to_query_string       *)
(***************************************************************************)
PresentNum(n) == [some |-> TRUE, v |-> n]

\* The fields of the QueryOptions passed to the query builder.
SelectChoices == {Absent, Present(<<>>), Present(<< <<"name">> >>),
                  Present(<< <<"name">>, <<"accountid">> >>)}
FilterChoices == {Absent, Present(<<"name eq 'a&b'">>)}
TopChoices == {AbsentNum, PresentNum(0), PresentNum(10)}
SkipChoices == {AbsentNum, PresentNum(5)}
OrderbyChoices == {Absent, Present(<<"name desc">>)}
ExpandChoices == {Absent, Present(<< <<"owner">>, <<"contacts">> >>)}
QueryOptionsChoices ==
    [select : SelectChoices, filter : FilterChoices, top : TopChoices,
     skip : SkipChoices, orderby : OrderbyChoices, expand : ExpandChoices,
     cross_company : BOOLEAN, count : BOOLEAN]

\* strs.join(sep)
RECURSIVE Join(_, _)
Join(strs, sep) ==
    IF strs = <<>> THEN <<>>
    ELSE IF Len(strs) = 1 THEN strs[1]
    ELSE strs[1] \o <<sep>> \o Join(Tail(strs), sep)

\* format!("{}", n) of an unsigned number: its decimal digits.
RECURSIVE ToDecimal(_)
ToDecimal(n) ==
    LET digit(d) == CHOOSE ch \in DigitChars : DigitValue(ch) = d
    IN  IF n < 10 THEN <<digit(n)>>
        ELSE ToDecimal(n \div 10) \o <<digit(n % 10)>>

\* A push that puts the parameter in front of the others.
PushFrontIf(params, cond, s) == IF cond THEN <<s>> \o params ELSE params

\* if cond { params.push(s) }
PushIf(params, cond, s) == IF cond THEN Append(params, s) ELSE params

\* A test of the cross-company flag that forgets the product.
EmitsCrossCompanyAnyProduct(cc, prod) == cc

\* self.cross_company && *product == ProductType::Finops
EmitsCrossCompany(cc, prod) == cc /\ prod = "Finops"

\* to_query_string(&self, product)
to_query_string(o, prod) ==
    LET p1 == PushIf(<<>>, o.select.some, <<"$select=">> \o Join(o.select.v, ","))
        p2 == PushIf(p1, o.filter.some, <<"$filter=">> \o o.filter.v)
        p3 == PushIf(p2, o.top.some, <<"$top=">> \o ToDecimal(o.top.v))
        p4 == PushIf(p3, o.skip.some, <<"$skip=">> \o ToDecimal(o.skip.v))
        p5 == PushIf(p4, o.orderby.some, <<"$orderby=">> \o o.orderby.v)
        p6 == PushIf(p5, o.expand.some, <<"$expand=">> \o Join(o.expand.v, ","))
        p7 == PushIf(p6, o.count, <<"$count=true">>)
        p8 == PushIf(p7, EmitsCrossCompany(o.cross_company, prod),
                     <<"cross-company=true">>)
    IN  IF p8 = <<>> THEN <<>> ELSE <<"?">> \o Join(p8, "&")

(***************************************************************************)
(* Page walker: src/odata/client.rs, fetch_entity_page, fetch_all_pages    *)
(***************************************************************************)
\* A url that is always built from the options.
PageUrlBuilt(link, ent, opts, prod) ==
    <<Endpoint, ent>> \o to_query_string(opts, prod)

\* fetch_entity_page's url: the link when there is one, else endpoint,
\* entity and query string.
PageUrl(link, ent, opts, prod) ==
    IF link # NoLink
    THEN <<link>>
    ELSE <<Endpoint, ent>> \o to_query_string(opts, prod)

\* A caller calls fetch_entity_page(entity, next_link, options) with an
\* entity of ents and options of opts; the url is built and get_token called.
CallFetchEntityPageWith(c, ents, opts) ==
    /\ pc[c] = "idle"
    /\ op' = Upd(op, c, "fetch_entity_page")
    /\ pc' = Upd(pc, c, "gt_lock")
    /\ result' = Upd(result, c, NoResult)
    /\ \E l \in Links \cup {NoLink} : \E e \in ents : \E o \in opts :
         /\ link_arg' = Upd(link_arg, c, l)
         /\ entity' = Upd(entity, c, e)
         /\ options' = Upd(options, c, o)
         /\ url' = Upd(url, c, PageUrl(l, e, o, product))
    /\ fetches' = Upd(fetches, c, 1)
    /\ sent' = Upd(sent, c, <<>>)
    /\ response' = Upd(response, c, NoResponse)
    /\ sleeps' = Upd(sleeps, c, <<>>)
    /\ GetTokenBegins(c, ClientResource)
    /\ UNCHANGED <<now, storeVars, attempt, delay, requests, statuses,
                   confVars, loopVars, pureVars, bearer, all_records, next_link, page>>

\* fetch_entity_page("accounts", next_link, &QueryOptions::default())
Call_fetch_entity_page(c) == CallFetchEntityPageWith(c, {"accounts"}, {DefaultOptions})

\* fetch_entity_page: response.json().await, and the return.
FP_Decode(c) ==
    /\ pc[c] = "fp_decode"
    /\ IF response[c].body.decodable
       THEN FetchEntityPageReturns(c, OkPage(response[c].body))
       ELSE FetchEntityPageReturns(c, Err("ParseError"))
    /\ response' = Upd(response, c, NoResponse)
    /\ UNCHANGED <<now, authVars, attempt, delay, requests, sleeps, statuses,
                   confVars, loopVars, pureVars, entryVars, op>>

\* A caller calls fetch_all_pages(entity, options) with an entity of ents and
\* options of opts.
CallFetchAllPagesWith(c, ents, opts) ==
    /\ pc[c] = "idle"
    /\ op' = Upd(op, c, "fetch_all_pages")
    /\ pc' = Upd(pc, c, "fa_loop")
    /\ result' = Upd(result, c, NoResult)
    /\ all_records' = Upd(all_records, c, <<>>)
    /\ next_link' = Upd(next_link, c, NoLink)
    /\ page' = Upd(page, c, 0)
    /\ fetches' = Upd(fetches, c, 0)
    /\ sent' = Upd(sent, c, <<>>)
    /\ response' = Upd(response, c, NoResponse)
    /\ \E e \in ents : \E o \in opts :
         /\ entity' = Upd(entity, c, e)
         /\ options' = Upd(options, c, o)
    /\ sleeps' = Upd(sleeps, c, <<>>)
    /\ UNCHANGED <<now, authVars, attempt, delay, requests, statuses,
                   confVars, loopVars, pureVars, entryVars, bearer, link_arg, url>>

\* fetch_all_pages("accounts", QueryOptions::default())
Call_fetch_all_pages(c) == CallFetchAllPagesWith(c, {"accounts"}, {DefaultOptions})

\* fetch_all_pages: the head of the loop: page += 1 and the call of
\* fetch_entity_page(entity, next_link.as_deref(), options).
FA_Loop(c) ==
    /\ pc[c] = "fa_loop"
    /\ page[c] < MaxPages
    /\ page' = Upd(page, c, page[c] + 1)
    /\ link_arg' = Upd(link_arg, c, next_link[c])
    /\ fetches' = Upd(fetches, c, fetches[c] + 1)
    /\ url' = Upd(url, c, PageUrl(next_link[c], entity[c], options[c], product))
    /\ pc' = Upd(pc, c, "gt_lock")
    /\ GetTokenBegins(c, ClientResource)
    /\ UNCHANGED <<now, storeVars, execVars, confVars, loopVars, pureVars, op, result, bearer,
                   all_records, next_link, entity, options, sent>>

(***************************************************************************)
(* Metadata: src/odata/client.rs, fetch_metadata                           *)
(***************************************************************************)
\* A caller calls fetch_metadata(): the url is built and get_token called.
Call_fetch_metadata(c) ==
    /\ pc[c] = "idle"
    /\ op' = Upd(op, c, "fetch_metadata")
    /\ pc' = Upd(pc, c, "gt_lock")
    /\ result' = Upd(result, c, NoResult)
    /\ url' = Upd(url, c, <<Endpoint, "$metadata">>)
    /\ attempt' = Upd(attempt, c, 0)
    /\ delay' = Upd(delay, c, 0)
    /\ requests' = Upd(requests, c, 0)
    /\ sleeps' = Upd(sleeps, c, <<>>)
    /\ statuses' = Upd(statuses, c, <<>>)
    /\ response' = Upd(response, c, NoResponse)
    /\ GetTokenBegins(c, ClientResource)
    /\ UNCHANGED <<now, storeVars, confVars, loopVars, pureVars, bearer, link_arg,
                   all_records, next_link, page, entity, options, fetches, sent>>

\* fetch_metadata: the GET is sent.
MD_Send(c) ==
    /\ pc[c] = "md_send"
    /\ requests' = Upd(requests, c, requests[c] + 1)
    /\ Goto(c, "md_wait")
    /\ UNCHANGED <<now, authVars, attempt, delay, response, sleeps, statuses,
                   confVars, loopVars, pureVars, entryVars, op>>

\* A metadata fetch that sends its GET again after a 5xx answer.
MetadataArmRetrying(st) ==
    IF IsServerError(st) THEN "again"
    ELSE IF IsSuccess(st) THEN "text" ELSE "server_error"

\* fetch_metadata: what the status of the answer leads to.
MetadataArm(st) == IF IsSuccess(st) THEN "text" ELSE "server_error"

\* fetch_metadata: the answer, one of rs, arrives; the body is read as text,
\* which can fail, and the call returns.
MD_ReceiveFrom(c, rs) ==
    /\ pc[c] = "md_wait"
    /\ \E r \in rs : \E read_ok \in BOOLEAN :
         /\ response' = Upd(response, c, r)
         /\ IF ~r.transport_ok
            THEN Done(c, Err("HttpError"))
            ELSE CASE MetadataArm(r.status) = "server_error" ->
                        Done(c, ServerError(r.status, IF read_ok THEN r.body.text ELSE ""))
                   [] MetadataArm(r.status) = "text" ->
                        IF read_ok
                        THEN Done(c, OkText(r.body.text))
                        ELSE Done(c, Err("HttpError"))
                   [] MetadataArm(r.status) = "again" ->
                        Goto(c, "md_send")
    /\ UNCHANGED <<now, authVars, attempt, delay, requests, sleeps, statuses,
                   confVars, loopVars, pureVars, entryVars, op>>

(***************************************************************************)
(* Stdio loop: src/main.rs, run_stdio_loop, handle_request, send_response  *)
(***************************************************************************)
\* The lines the loop is followed through.
MaxLines == 3

\* What read_line can bring: a line of the input, as what trimming and
\* parsing make of it, the end of the input, or a failure.
InputLine(kind, id, method, params) ==
    [kind |-> kind, id |-> id, method |-> method, params |-> params]
NoRequest == InputLine("none", AbsentNum, "", "none")
EndOfInput == InputLine("eof", AbsentNum, "", "none")
ReadFailures ==
    {InputLine(k, AbsentNum, "", "none") : k \in {"io_error", "not_utf8"}}

\* The lines of the input: blank after trimming, not a JsonRpcRequest, or a
\* JsonRpcRequest with or without an id.
InputLines ==
    {InputLine(k, AbsentNum, "", "none") : k \in {"blank", "unparsable"}}
    \cup {InputLine("request", id, "ping", "none") :
            id \in {AbsentNum, PresentNum(1), PresentNum(2)}}
    \cup {InputLine("request", PresentNum(1), "tools/call", "none"),
          InputLine("request", AbsentNum, "tools/call", "valid")}

\* JsonRpcResponse::success(id, result) and JsonRpcResponse::error(id, code, _)
NoRpcResponse == [id |-> AbsentNum, code |-> 0, result |-> "none"]
RpcSuccess(id, res) == [id |-> id, code |-> 0, result |-> res]
RpcError(id, code) == [id |-> id, code |-> code, result |-> "none"]

\* handle_request(server, request)
handle_request(srv, req) ==
    CASE req.method = "initialize" -> RpcSuccess(req.id, "initialize")
      [] req.method \in {"initialized", "notifications/initialized"} ->
            RpcSuccess(req.id, "empty")
      [] req.method = "tools/list" -> RpcSuccess(req.id, "tools")
      [] req.method = "tools/call" ->
            IF ~srv THEN RpcSuccess(req.id, "tool_error")
            ELSE IF req.params = "none" THEN RpcError(req.id, -32602)
            ELSE IF req.params = "invalid" THEN RpcError(req.id, -32602)
            ELSE RpcSuccess(req.id, "tool_result")
      [] req.method = "ping" -> RpcSuccess(req.id, "empty")
      [] OTHER -> RpcSuccess(req.id, "empty")

\* A loop that takes no request for a notification.
IsNotificationNever(req) == FALSE

\* let is_notification = request.id.is_none()
IsNotification(req) == ~req.id.some

\* What a send_response call can come to: the line written and flushed; or
\* a failure, with nothing, a part of the line or the whole line written.
SendOutcomes ==
    {[result |-> "Ok", written |-> "line"]}
    \cup {[result |-> "Err", written |-> w] : w \in {"nothing", "part", "line"}}

\* The head of the loop: read_line, the end of the input, the failure of the
\* read, the blank line, and the parse with its error response.
Loop_ReadLine ==
    /\ loop_pc = "read"
    /\ \E r \in {EndOfInput} \cup ReadFailures
                \cup (IF Len(lines_in) < MaxLines THEN InputLines ELSE {}) :
         /\ read_result' = r.kind
         /\ lines_in' = IF r.kind \in {"eof", "io_error"} THEN lines_in
                        ELSE Append(lines_in, r)
         /\ CASE r.kind = "eof" ->
                   /\ loop_pc' = "stopped"
                   /\ UNCHANGED <<request, rpc_response>>
              [] r \in ReadFailures ->
                   /\ loop_pc' = "failed"
                   /\ UNCHANGED <<request, rpc_response>>
              [] r.kind = "blank" ->
                   /\ loop_pc' = "read"
                   /\ UNCHANGED <<request, rpc_response>>
              [] r.kind = "unparsable" ->
                   /\ loop_pc' = "send"
                   /\ rpc_response' = RpcError(AbsentNum, -32700)
                   /\ UNCHANGED request
              [] r.kind = "request" ->
                   /\ loop_pc' = "handle"
                   /\ request' = r
                   /\ UNCHANGED rpc_response
    /\ UNCHANGED <<clientVars, server, stdout, send_results>>

\* The request is handled; the response to a notification is dropped.
Loop_Handle ==
    /\ loop_pc = "handle"
    /\ IF IsNotification(request)
       THEN loop_pc' = "read" /\ rpc_response' = NoRpcResponse
       ELSE loop_pc' = "send" /\ rpc_response' = handle_request(server, request)
    /\ request' = NoRequest
    /\ UNCHANGED <<clientVars, server, read_result, stdout, lines_in, send_results>>

\* let _ = send_response(&mut stdout, &response).await
Loop_Send ==
    /\ loop_pc = "send"
    /\ \E o \in SendOutcomes :
         /\ stdout' = IF o.written = "nothing" THEN stdout
                       ELSE Append(stdout, [response |-> rpc_response,
                                            newline |-> o.written = "line"])
         /\ send_results' = Append(send_results, [response |-> rpc_response,
                                                  result |-> o.result])
    /\ rpc_response' = NoRpcResponse
    /\ loop_pc' = "read"
    /\ UNCHANGED <<clientVars, server, read_result, request, lines_in>>

(***************************************************************************)
(* Specifications.                                                         *)
(***************************************************************************)
\* The stdio loop before its first read, with the server configured or not.
InitStdio(servers) ==
    /\ server \in servers
    /\ loop_pc = "read"
    /\ read_result = "none"
    /\ request = NoRequest
    /\ rpc_response = NoRpcResponse
    /\ stdout = <<>>
    /\ lines_in = <<>>
    /\ send_results = <<>>

\* The client as ODataClient::new and OAuth2Auth::new leave it, no call in
\* flight.
InitClient(maxrs, delays, products, calls) ==
    /\ now = 0
    /\ token_cache = None
    /\ lock_readers = {}
    /\ lock_writer = NoCaller
    /\ max_retries \in maxrs
    /\ retry_delay_ms \in delays
    /\ product \in products
    /\ call \in calls
    /\ ret = NoReturn
    /\ op = [c \in Callers |-> "none"]
    /\ pc = [c \in Callers |-> "idle"]
    /\ result = [c \in Callers |-> NoResult]
    /\ token_response = [c \in Callers |-> NoTokenResponse]
    /\ cached = [c \in Callers |-> NoCached]
    /\ token_answer = [c \in Callers |-> NoTokenAnswer]
    /\ bearer = [c \in Callers |-> 0]
    /\ attempt = [c \in Callers |-> 0]
    /\ delay = [c \in Callers |-> 0]
    /\ response = [c \in Callers |-> NoResponse]
    /\ link_arg = [c \in Callers |-> NoLink]
    /\ all_records = [c \in Callers |-> <<>>]
    /\ next_link = [c \in Callers |-> NoLink]
    /\ page = [c \in Callers |-> 0]
    /\ entity = [c \in Callers |-> NoEntity]
    /\ options = [c \in Callers |-> DefaultOptions]
    /\ url = [c \in Callers |-> NoUrl]
    /\ issued = 0
    /\ token_requests = 0
    /\ decoded_at = [c \in Callers |-> 0]
    /\ requests = [c \in Callers |-> 0]
    /\ sleeps = [c \in Callers |-> <<>>]
    /\ statuses = [c \in Callers |-> <<>>]
    /\ fetches = [c \in Callers |-> 0]
    /\ sent = [c \in Callers |-> <<>>]
    /\ clear_done = FALSE
    /\ after_clear = [c \in Callers |-> FALSE]
    /\ resource_arg = [c \in Callers |-> NoResource]
    /\ issued_for = <<>>

\* The client, and a stdio loop that has not read yet.
InitOf(maxrs, delays, products, calls) ==
    InitClient(maxrs, delays, products, calls) /\ InitStdio({TRUE})

\* A client of the default product, no call of a function without state.
InitWith(maxrs, delays) == InitOf(maxrs, delays, {DefaultProduct}, {NoCall})

\* RuntimeConfig's defaults for max_retries and retry_delay_ms.
DefaultMaxRetries == 3
DefaultRetryDelayMs == 1000

Init == InitWith(0..MaxMaxRetries, RetryDelayChoices)
InitDefault == InitWith({DefaultMaxRetries}, {DefaultRetryDelayMs})

\* The credential store under concurrent callers.
NextAuth ==
    \/ Tick
    \/ \E c \in Callers :
         \/ Call_get_token(c)
         \/ GT_ReadLock(c)
         \/ GT_Check(c)
         \/ AC_Post(c)
         \/ AC_Receive(c)
         \/ AC_WriteLock(c)
         \/ AC_Store(c)
         \/ Call_clear_cache(c)
         \/ CC_WriteLock(c)
         \/ CC_Clear(c)

SpecAuth == InitDefault /\ [][NextAuth]_vars

\* The responses of the data service to a bare execute_with_retry call: every
\* status, every Retry-After header, a body that is never looked into.
RetryResponses ==
    {r \in HttpResponses : r.body.value = <<>> /\ r.body.next_link = NoLink}

\* A bare execute_with_retry call is answered.
Retry_Receive(c) == Exec_ReceiveFrom(c, RetryResponses)

\* One execute_with_retry call after another, for every client configuration.
NextRetry ==
    \E c \in {"c1"} :
         \/ Call_execute(c)
         \/ Exec_Enter(c)
         \/ Retry_Receive(c)
         \/ Exec_Wake(c)

SpecRetry == Init /\ [][NextRetry]_vars

\* The call is polled when it is ready, every GET is answered or fails in
\* transport, every sleep ends.
FairRetry == \A c \in {"c1"} :
    WF_vars(Exec_Enter(c)) /\ WF_vars(Retry_Receive(c)) /\ WF_vars(Exec_Wake(c))

\* Every retry budget, the default delay.
SpecRetryFair ==
    InitWith(0..MaxMaxRetries, {DefaultRetryDelayMs}) /\ [][NextRetry]_vars /\ FairRetry

\* The responses of the data service during page fetches: every arm of the
\* match, no Retry-After header, every page or an undecodable body.
WalkStatuses == {200, 204, 401, 403, 404, 429, 500}
WalkResponses ==
    {r \in HttpResponses :
        \/ ~r.transport_ok
        \/ /\ r.status \in WalkStatuses
           /\ r.retry_after = NoHeader
           /\ r.body.text \in {"", "e1"}}

\* A page fetch's execute_with_retry is answered.
Walk_Receive(c) == Exec_ReceiveFrom(c, WalkResponses)

\* The retry budgets of the clients that fetch pages: none, and one retry.
WalkMaxRetries == {1, 2}
InitWalk == InitWith(WalkMaxRetries, {DefaultRetryDelayMs})

\* One page fetch or page walk after another, with everything it calls.
NextWalk ==
    \/ Tick
    \/ \E c \in {"c1"} :
         \/ Call_fetch_all_pages(c)
         \/ Call_fetch_entity_page(c)
         \/ FA_Loop(c)
         \/ GT_ReadLock(c)
         \/ GT_Check(c)
         \/ AC_Post(c)
         \/ AC_Receive(c)
         \/ AC_WriteLock(c)
         \/ AC_Store(c)
         \/ Exec_Enter(c)
         \/ Walk_Receive(c)
         \/ Exec_Wake(c)
         \/ FP_Decode(c)

SpecWalk == InitWalk /\ [][NextWalk]_vars

\* The scheduler runs every call that can take a step: a task that is ready
\* is polled, a request in flight is answered, a sleep ends.
FairWalk == \A c \in {"c1"} :
    /\ WF_vars(FA_Loop(c)) /\ WF_vars(GT_ReadLock(c)) /\ WF_vars(GT_Check(c))
    /\ WF_vars(AC_Post(c)) /\ WF_vars(AC_Receive(c)) /\ WF_vars(AC_WriteLock(c))
    /\ WF_vars(AC_Store(c)) /\ WF_vars(Exec_Enter(c)) /\ WF_vars(Walk_Receive(c))
    /\ WF_vars(Exec_Wake(c)) /\ WF_vars(FP_Decode(c))

\* One page walk after another while the clock stands still: a token of 60 s
\* is never usable, the longer ones always are.
NextWalkFair ==
    \E c \in {"c1"} :
         \/ Call_fetch_all_pages(c)
         \/ FA_Loop(c)
         \/ GT_ReadLock(c)
         \/ GT_Check(c)
         \/ AC_Post(c)
         \/ AC_Receive(c)
         \/ AC_WriteLock(c)
         \/ AC_Store(c)
         \/ Exec_Enter(c)
         \/ Walk_Receive(c)
         \/ Exec_Wake(c)
         \/ FP_Decode(c)

SpecWalkFair == InitWalk /\ [][NextWalkFair]_vars /\ FairWalk

\* Page walks of both products with several entities and options; the data
\* service answers with pages, and now and then with a 429 or a 404.
UrlOptions ==
    {DefaultOptions,
     [DefaultOptions EXCEPT !.top = PresentNum(10), !.cross_company = TRUE]}
UrlResponses ==
    {r \in HttpResponses :
        /\ r.transport_ok
        /\ r.status \in {200, 404, 429}
        /\ r.retry_after = NoHeader
        /\ r.body.text \in {"", "e1"}}
Url_Call_fetch_all_pages(c) == CallFetchAllPagesWith(c, Entities, UrlOptions)
Url_Call_fetch_entity_page(c) == CallFetchEntityPageWith(c, Entities, UrlOptions)
Url_Receive(c) == Exec_ReceiveFrom(c, UrlResponses)
InitUrl == InitOf({2}, {DefaultRetryDelayMs}, ProductTypes, {NoCall})
NextUrl ==
    \E c \in {"c1"} :
         \/ Url_Call_fetch_all_pages(c)
         \/ Url_Call_fetch_entity_page(c)
         \/ FA_Loop(c)
         \/ GT_ReadLock(c)
         \/ GT_Check(c)
         \/ AC_Post(c)
         \/ AC_Receive(c)
         \/ AC_WriteLock(c)
         \/ AC_Store(c)
         \/ Exec_Enter(c)
         \/ Url_Receive(c)
         \/ Exec_Wake(c)
         \/ FP_Decode(c)

SpecUrl == InitUrl /\ [][NextUrl]_vars

\* The answers of the data service to the GET of the metadata document:
\* text that is no JSON under the success statuses, error texts under the
\* others, with a Retry-After header or none.
MetadataStatuses == {200, 202, 204, 400, 404, 429, 500, 503}
MetadataResponses ==
    {NoResponse}
    \cup [transport_ok : {TRUE}, status : MetadataStatuses,
          retry_after : {NoHeader, Header(<<"3">>)},
          body : {TextBody(t) : t \in {"<edmx/>", "e1"}}]
Meta_Receive(c) == MD_ReceiveFrom(c, MetadataResponses)

\* One fetch_metadata call after another, for every retry budget.
InitMeta == InitWith(0..MaxMaxRetries, {DefaultRetryDelayMs})
NextMeta ==
    \/ Tick
    \/ \E c \in {"c1"} :
         \/ Call_fetch_metadata(c)
         \/ GT_ReadLock(c)
         \/ GT_Check(c)
         \/ AC_Post(c)
         \/ AC_Receive(c)
         \/ AC_WriteLock(c)
         \/ AC_Store(c)
         \/ MD_Send(c)
         \/ Meta_Receive(c)

SpecMeta == InitMeta /\ [][NextMeta]_vars

\* One credential store asked for tokens for two resources, one call after
\* another.
Two_Call_get_token(c) ==
    CallGetTokenWith(c, {ClientResource, <<"https://other.example">>})
NextTwo ==
    \/ Tick
    \/ \E c \in {"c1"} :
         \/ Two_Call_get_token(c)
         \/ GT_ReadLock(c)
         \/ GT_Check(c)
         \/ AC_Post(c)
         \/ AC_Receive(c)
         \/ AC_WriteLock(c)
         \/ AC_Store(c)

SpecTwo == InitDefault /\ [][NextTwo]_vars

\* A token endpoint that issues only tokens of 60 seconds or less, when it
\* issues one.
Short_AC_Receive(c) ==
    AC_ReceiveFrom(c, {r \in TokenEndpointResponses : ~r.decodable}
                      \cup [transport_ok : {TRUE}, status : {200}, decodable : {TRUE},
                            expires_in : {0, 1, Margin}, body : {""}])

\* get_token calls of two callers against that endpoint, as time passes.
NextShort ==
    \/ Tick
    \/ \E c \in Callers :
         \/ Call_get_token(c)
         \/ GT_ReadLock(c)
         \/ GT_Check(c)
         \/ AC_Post(c)
         \/ Short_AC_Receive(c)
         \/ AC_WriteLock(c)
         \/ AC_Store(c)

SpecShort == InitDefault /\ [][NextShort]_vars

\* The stdio loop over every input of MaxLines lines at most, with the
\* server configured or not.
InitLoop ==
    /\ InitClient({DefaultMaxRetries}, {DefaultRetryDelayMs}, {DefaultProduct}, {NoCall})
    /\ InitStdio(BOOLEAN)
NextLoop == Loop_ReadLine \/ Loop_Handle \/ Loop_Send
SpecLoop == InitLoop /\ [][NextLoop]_vars

\* A page fetch of caller c1, with its token acquisition, its GETs and its
\* backoff sleeps, beside get_token calls of caller c2.
Iso_Receive(c) ==
    Exec_ReceiveFrom(c, {r \in HttpResponses :
                            /\ r.transport_ok
                            /\ r.status \in {200, 429, 500}
                            /\ r.retry_after = NoHeader
                            /\ r.body.text \in {"", "e1"}
                            /\ r.body.value = <<>> /\ r.body.next_link = NoLink})
NextIso ==
    \/ Tick
    \/ \E c \in {"c1"} :
         \/ Call_fetch_entity_page(c)
         \/ Exec_Enter(c)
         \/ Iso_Receive(c)
         \/ Exec_Wake(c)
         \/ FP_Decode(c)
    \/ \E c \in {"c2"} : Call_get_token(c)
    \/ \E c \in Callers :
         \/ GT_ReadLock(c)
         \/ GT_Check(c)
         \/ AC_Post(c)
         \/ AC_Receive(c)
         \/ AC_WriteLock(c)
         \/ AC_Store(c)

\* The code under a lock guard runs to the end of its block: it has no
\* suspension point.  Requests in flight and sleeps may last for ever.
FairIso == \A c \in Callers :
    /\ WF_vars(GT_ReadLock(c)) /\ WF_vars(GT_Check(c))
    /\ WF_vars(AC_WriteLock(c)) /\ WF_vars(AC_Store(c))

SpecIso == InitWith({2}, {DefaultRetryDelayMs}) /\ [][NextIso]_vars /\ FairIso

\* A page walk of caller c1 beside execute_with_retry calls of caller c2 on
\* a service that limits the rate now and then; every token request succeeds.
Budget_Receive(c) ==
    Exec_ReceiveFrom(c, {r \in HttpResponses :
                            /\ r.transport_ok
                            /\ r.status \in {200, 429, 503}
                            /\ r.retry_after = NoHeader
                            /\ r.body.text \in {"", "e1"}
                            /\ r.body.decodable
                               => r.body.value = <<>> /\ r.body.next_link # "L2"})
Budget_AC_Receive(c) ==
    AC_ReceiveFrom(c, {r \in TokenEndpointResponses : r.decodable /\ r.expires_in = 3600})
NextBudget ==
    \/ \E c \in {"c1"} :
         \/ Call_fetch_all_pages(c)
         \/ FA_Loop(c)
         \/ GT_ReadLock(c)
         \/ GT_Check(c)
         \/ AC_Post(c)
         \/ Budget_AC_Receive(c)
         \/ AC_WriteLock(c)
         \/ AC_Store(c)
         \/ FP_Decode(c)
    \/ \E c \in {"c2"} : Call_execute(c)
    \/ \E c \in Callers :
         \/ Exec_Enter(c)
         \/ Budget_Receive(c)
         \/ Exec_Wake(c)

\* Budgets of one and of two retries.
SpecBudget == InitWith({2, 3}, {DefaultRetryDelayMs}) /\ [][NextBudget]_vars

\* Everything but the call of a function without state.
stateVars == <<now, authVars, execVars, walkVars, confVars, loopVars, entryVars, op, pc,
               result, bearer>>

\* The attempts a call is followed through when only its delay is computed.
MaxAttempt == 56

\* The arguments of the functions without state.
ExpiryChoices == {0, 59, 60, 61, 62, 3540, 3600, 3660, 3661}
ResourceChoices ==
    {<<>>, <<"https://org.example">>, <<"https://org.example", "/">>,
     <<"https://org.example", "/", "/">>}
PureCalls ==
    {[fn |-> "is_valid", expires_at |-> e, now |-> t] :
        e \in ExpiryChoices, t \in Instants}
    \cup {[fn |-> "to_query_string", options |-> o, product |-> p] :
            o \in QueryOptionsChoices, p \in ProductTypes}
    \cup {[fn |-> "token_endpoint", config |-> cfg] : cfg \in AuthConfigs}
    \cup {[fn |-> "acquire_token_params", config |-> cfg, resource |-> r] :
            cfg \in AuthConfigs, r \in ResourceChoices}
    \cup {[fn |-> "delay", base |-> b, shift |-> sh, attempt |-> n] :
            b \in {0, 1, 1000, 1500}, sh \in {0, 62}, n \in 1..MaxAttempt}

\* cached.is_valid() at the instant call.now
Apply_is_valid ==
    /\ call.fn = "is_valid" /\ ~ret.done
    /\ ret' = Returned(is_valid([access_token |-> 0, expires_at |-> call.expires_at],
                                call.now))
    /\ UNCHANGED <<stateVars, call>>

\* options.to_query_string(&product)
Apply_to_query_string ==
    /\ call.fn = "to_query_string" /\ ~ret.done
    /\ ret' = Returned(to_query_string(call.options, call.product))
    /\ UNCHANGED <<stateVars, call>>

\* self.token_endpoint()
Apply_token_endpoint ==
    /\ call.fn = "token_endpoint" /\ ~ret.done
    /\ ret' = Returned(token_endpoint(call.config))
    /\ UNCHANGED <<stateVars, call>>

\* the params of acquire_token(resource)
Apply_token_params ==
    /\ call.fn = "acquire_token_params" /\ ~ret.done
    /\ ret' = Returned(TokenParams(call.config, call.resource))
    /\ UNCHANGED <<stateVars, call>>

\* execute_with_retry's delay at the attempt call.attempt, with
\* retry_delay_ms = call.base * 2^call.shift, in a build with overflow checks
\* or in one without.
Apply_delay ==
    /\ call.fn = "delay" /\ ~ret.done
    /\ \E overflow_checks \in BOOLEAN :
         ret' = Returned(DoubleTimes(U64(call.base, call.shift), call.attempt - 1,
                                     overflow_checks))
    /\ UNCHANGED <<stateVars, call>>

\* One call of a function without state, for every argument.
InitPure ==
    InitOf({DefaultMaxRetries}, {DefaultRetryDelayMs}, {DefaultProduct}, PureCalls)
NextPure ==
    \/ Apply_is_valid
    \/ Apply_to_query_string
    \/ Apply_token_endpoint
    \/ Apply_token_params
    \/ Apply_delay

SpecPure == InitPure /\ [][NextPure]_vars

(***************************************************************************)
(* Properties of the credential store, under SpecAuth.                     *)
(***************************************************************************)
\* C1: when get_token's check finds a cached token with now + 60 s < expiry,
\* the call returns that token's bearer string at that step, the cache is
\* left as it was and no request goes to the token endpoint.
C1_CacheHit ==
    [][\A c \in Callers :
          (/\ pc[c] = "gt_check" /\ pc'[c] # "gt_check"
           /\ token_cache.some
           /\ now + 60 < token_cache.expires_at)
          => /\ pc'[c] = "idle"
             /\ result'[c] = OkToken(token_cache.access_token)
             /\ token_cache' = token_cache
             /\ token_requests' = token_requests]_vars

\* Both callers have been handed the same bearer string: one acquisition, and
\* at least one return from the cache.
C1_Witness ==
    /\ \A c \in Callers : pc[c] = "idle" /\ op[c] = "get_token"
    /\ result["c1"].kind = "Ok" /\ result["c2"].kind = "Ok"
    /\ result["c1"].token # 0
    /\ result["c1"].token = result["c2"].token
    /\ token_requests = 1

\* The cache entry a caller's decoded token response makes.
EntryOf(c) ==
    [some |-> TRUE,
     access_token |-> token_response[c].access_token,
     expires_at |-> decoded_at[c] + token_response[c].expires_in]

\* C2: a successful acquisition replaces the cache slot by the entry
\* (access_token, now + expires_in) of its own response, now being the instant
\* the response was decoded, and returns that access_token; the slot never
\* changes in any other way than by such a store or by clear_cache, so it
\* never mixes two responses.
C2_AcquireStoresWhole ==
    /\ [][\A c \in Callers :
            (pc[c] = "ac_store" /\ pc'[c] # "ac_store")
            => /\ token_cache' = EntryOf(c)
               /\ result'[c] = OkToken(token_response[c].access_token)]_vars
    /\ [][token_cache' # token_cache
            => \/ \E c \in Callers : pc[c] = "cc_clear" /\ token_cache' = None
               \/ \E c \in Callers : pc[c] = "ac_store" /\ token_cache' = EntryOf(c)]_vars
    /\ [](\A c \in Callers :
            pc[c] \in {"ac_wlock", "ac_store"}
            => /\ token_response[c].access_token \in 1..issued
               /\ cached[c].access_token = token_response[c].access_token
               /\ cached[c].expires_at = decoded_at[c] + token_response[c].expires_in)

\* A second acquisition has replaced the first one's entry, token and expiry.
C2_Witness ==
    /\ token_cache.some
    /\ token_cache.access_token = 2
    /\ \E c \in Callers :
         /\ pc[c] = "idle" /\ result[c] = OkToken(2)
    /\ \E c \in Callers : result[c] = OkToken(1)
    /\ token_cache.expires_at = 3600 + 61

\* C12: once clear_cache has returned, the first get_token call to begin
\* does not return at its look into the cache: it goes on to acquire_token
\* and its request to the token endpoint, also when another caller's
\* acquire_token was under way while clear_cache ran.
C12_ClearForcesReacquire ==
    [][\A c \in Callers :
          (/\ after_clear[c] /\ op[c] = "get_token"
           /\ pc[c] = "gt_check" /\ pc'[c] # "gt_check")
          => pc'[c] = "ac_post"]_vars

\* The call of is_valid has returned v.
ValidityIs(v) == call.fn = "is_valid" /\ ret.done /\ ret.value = v

\* C13: a cached token is usable exactly when its expiry is later than
\* now + 60 s: one that expires at now + 60 s or before is not usable, one
\* that expires at now + 3600 s is.  Checked under SpecPure.
C13_ValidityBoundary ==
    (call.fn = "is_valid" /\ ret.done)
    => /\ ret.value \in BOOLEAN
       /\ ret.value <=> (call.now + 60 < call.expires_at)
       /\ call.expires_at = call.now + 60 => ~ret.value
       /\ call.expires_at <= call.now + 60 => ~ret.value
       /\ call.expires_at = call.now + 61 => ret.value
       /\ call.expires_at = call.now + 3600 => ret.value

\* The token that expires at exactly now + 60 s is found not usable.
C13_Witness ==
    /\ ValidityIs(FALSE)
    /\ call.now = 0 /\ call.expires_at = 60

\* The answer of the token endpoint arrives and ends the caller's get_token
\* call without a token.
AcquisitionFails(c) ==
    /\ op[c] = "get_token"
    /\ pc[c] = "ac_wait" /\ pc'[c] \notin {"ac_wait", "ac_wlock"}

\* C15: a non-success status of the token endpoint gives a token-request
\* failure with that status and body, a success status with a body that does
\* not decode gives a parse failure, a failed transport gives the transport
\* failure; get_token returns the failure in that step, and no step of the
\* call up to there has written the cache.
C15_FailedAcquisition ==
    [][\A c \in Callers :
          /\ AcquisitionFails(c)
             => LET r == token_answer'[c]
                IN  /\ pc'[c] = "idle"
                    /\ token_cache' = token_cache
                    /\ ~(r.transport_ok /\ r.status \in 200..299 /\ r.decodable)
                    /\ (~r.transport_ok) => result'[c] = Err("HttpError")
                    /\ (r.transport_ok /\ r.status \notin 200..299)
                       => result'[c] = TokenRequestFailed(r.status, r.body)
                    /\ (r.transport_ok /\ r.status \in 200..299 /\ ~r.decodable)
                       => result'[c] = Err("ParseError")
          /\ (pc[c] \in {"gt_lock", "gt_check", "ac_post", "ac_wait", "ac_wlock"}
                /\ pc'[c] # pc[c])
             => token_cache' = token_cache]_vars

\* The token endpoint answered 201 with a body that does not decode while
\* another caller's token is in the cache: parse failure, cache as it was.
C15_Witness ==
    /\ op["c1"] = "get_token" /\ pc["c1"] = "idle"
    /\ result["c1"] = Err("ParseError")
    /\ token_answer["c1"].status = 201
    /\ token_cache.some

\* Both callers' get_token calls have returned tokens, and two tokens were
\* asked for.
BothAcquired ==
    /\ \A c \in Callers : pc[c] = "idle" /\ op[c] = "get_token" /\ result[c].kind = "Ok"
    /\ result["c1"].token # result["c2"].token
    /\ token_requests = 2

\* C21: a get_token call that finds no usable token goes on to acquire_token
\* whatever the other caller is doing, so two callers that both found none
\* both send a token request; each acquisition that succeeds gets a token the
\* endpoint issues for it, writes the whole cache entry from it, whatever the
\* other caller wrote before, and returns its own token; a returned or cached
\* token is always one the endpoint issued, and when both calls have returned
\* the cache holds the token of one of them, never nothing.
C21_RefreshRace ==
    /\ [][\A c \in Callers :
            /\ (/\ pc[c] = "gt_check" /\ pc'[c] # "gt_check"
                /\ ~(token_cache.some /\ now + 60 < token_cache.expires_at))
               => pc'[c] = "ac_post" /\ token_cache' = token_cache
            /\ (pc[c] = "ac_post" /\ pc'[c] # "ac_post")
               => pc'[c] = "ac_wait" /\ token_requests' = token_requests + 1
            /\ (pc[c] = "ac_wait" /\ pc'[c] = "ac_wlock")
               => /\ issued' = issued + 1
                  /\ token_response'[c].access_token = issued'
            /\ (pc[c] = "ac_wlock" /\ pc'[c] # "ac_wlock")
               => pc'[c] = "ac_store" /\ token_cache' = token_cache
            /\ (pc[c] = "ac_store" /\ pc'[c] # "ac_store")
               => /\ token_cache'.some
                  /\ token_cache'.access_token = token_response[c].access_token
                  /\ token_cache'.expires_at = cached[c].expires_at
                  /\ pc'[c] = "idle"
                  /\ result'[c] = OkToken(token_response[c].access_token)]_vars
    /\ [](\A c \in Callers :
            (op[c] = "get_token" /\ result[c].kind = "Ok")
            => result[c].token \in 1..issued)
    /\ [](token_cache.some => token_cache.access_token \in 1..issued)
    /\ [](BothAcquired
            => /\ token_cache.some
               /\ token_cache.access_token \in {result["c1"].token, result["c2"].token})

\* Both callers found the cache empty and acquired: c1 got the first token,
\* c2 the second, and c1 wrote last, so the cache holds the first.
C21_Witness ==
    /\ BothAcquired
    /\ result["c1"] = OkToken(1) /\ result["c2"] = OkToken(2)
    /\ token_cache.access_token = 1

\* C22: a get_token call for a resource other than the one the cached token
\* was issued for does not return at its look into the cache: it goes on to
\* its own acquisition, which overwrites the entry.  Checked under SpecTwo.
C22_TwoResources ==
    [][\A c \in Callers :
          (/\ pc[c] = "gt_check" /\ pc'[c] # "gt_check"
           /\ token_cache.some
           /\ issued_for[token_cache.access_token] # resource_arg[c])
          => /\ pc'[c] = "ac_post"
             /\ result'[c].kind = "None"]_vars

\* The caller is suspended in a backoff sleep, in a GET or in the round trip
\* to the token endpoint.
Suspended(c) == pc[c] \in {"ex_sleep", "ex_wait", "ac_wait"}

\* C23: the lock of the token cache is held only inside the blocks that look
\* into the cache or write it, never by a call that is in a sleep, in a GET
\* or in a token request.  While one call is suspended there, another call's
\* get_token can take the read lock, and with a usable token in the cache it
\* returns that token at its look into the cache (to its caller, or to the
\* page fetch that goes on to its GET), the suspended call staying where it
\* is; a get_token call always gets past the lock, also when the
\* other call's sleep or request never ends.  Checked under SpecIso.
C23_BackoffIsolation ==
    /\ [](\A c \in Callers :
            /\ c \in lock_readers => pc[c] = "gt_check"
            /\ lock_writer = c => pc[c] \in {"ac_store", "cc_clear"}
            /\ Suspended(c) => c \notin lock_readers /\ lock_writer # c)
    /\ [](\A c \in Callers : \A d \in Callers \ {c} :
            (Suspended(c) /\ pc[d] = "gt_lock") => ENABLED GT_ReadLock(d))
    /\ [][\A c \in Callers : \A d \in Callers \ {c} :
            (/\ Suspended(c)
             /\ pc[d] = "gt_check" /\ pc'[d] # "gt_check"
             /\ token_cache.some /\ now + 60 < token_cache.expires_at)
            => /\ IF op[d] = "get_token"
                  THEN /\ pc'[d] = "idle"
                       /\ result'[d] = OkToken(token_cache.access_token)
                  ELSE /\ pc'[d] = "ex_enter"
                       /\ bearer'[d] = token_cache.access_token
               /\ pc'[c] = pc[c]]_vars
    /\ \A d \in Callers : (pc[d] = "gt_lock") ~> (pc[d] # "gt_lock")

\* Caller c1 is in the backoff sleep of its page fetch; caller c2 holds the
\* read lock and finds the token c1 acquired usable.
C23_Witness ==
    /\ pc["c1"] = "ex_sleep"
    /\ pc["c2"] = "gt_check" /\ "c2" \in lock_readers
    /\ token_cache.some /\ now + 60 < token_cache.expires_at
    /\ token_cache.access_token = bearer["c1"]
    /\ token_requests = 1

(***************************************************************************)
(* Properties of short-lived tokens, under SpecShort.                      *)
(***************************************************************************)
\* C30: while the token endpoint issues tokens with expires_in <= 60, every
\* token it issues is stored in the cache as it is, the cache never holds a
\* token a get_token call can use, every get_token call goes from its look
\* into the cache on to a request to the token endpoint, and a call that
\* returns a token returns one that was issued to it.
C30_ShortLivedTokens ==
    /\ [](/\ ~CacheHit(token_cache, now)
          /\ token_cache.some => token_cache.expires_at <= now + Margin
          /\ \A c \in Callers :
                (op[c] = "get_token" /\ pc[c] = "idle" /\ result[c].kind = "Ok")
                => /\ result[c].token \in 1..issued
                   /\ token_requests >= 1)
    /\ [][\A c \in Callers :
            /\ (pc[c] = "gt_check" /\ pc'[c] # "gt_check") => pc'[c] = "ac_post"
            /\ (pc[c] = "ac_post" /\ pc'[c] # "ac_post")
               => token_requests' = token_requests + 1
            /\ (pc[c] = "ac_store" /\ pc'[c] # "ac_store")
               => /\ token_cache'.some
                  /\ token_cache'.access_token = token_response[c].access_token
                  /\ token_cache'.expires_at = decoded_at[c] + token_response[c].expires_in
                  /\ result'[c] = OkToken(token_response[c].access_token)]_vars

\* The cache holds the first token, issued for 60 seconds and stored at this
\* instant, and the second get_token call has gone past it to the token
\* endpoint.
C30_Witness ==
    /\ token_cache.some /\ token_cache.access_token = 1
    /\ token_cache.expires_at = now + Margin
    /\ op["c1"] = "get_token" /\ pc["c1"] = "idle" /\ result["c1"] = OkToken(1)
    /\ pc["c2"] = "ac_wait" /\ token_requests = 2

(***************************************************************************)
(* Properties of the retry executor, under SpecRetry.                      *)
(***************************************************************************)
RECURSIVE Pow2(_)
Pow2(n) == IF n = 0 THEN 1 ELSE 2 * Pow2(n - 1)

Last(seq) == seq[Len(seq)]

\* An execute_with_retry call has returned; its locals are as it left them.
Finished(c) == pc[c] = "idle" /\ op[c] = "execute" /\ result[c].kind # "None"

\* The call's last answer was a response with status st.
LastStatus(c, st) == response[c].transport_ok /\ response[c].status = st

Is5xx(st) == st >= 500 /\ st <= 599

\* The first k answers were 429 without a Retry-After header.
RateLimitedRun(c, k) ==
    /\ k <= Len(statuses[c])
    /\ \A i \in 1..k : statuses[c][i].status = 429 /\ ~statuses[c][i].retry_after

\* The answers were k < max_retries times 429 without Retry-After, then 200.
RecoveredAfter(c, k) ==
    /\ Finished(c)
    /\ k < max_retries
    /\ Len(statuses[c]) = k + 1
    /\ RateLimitedRun(c, k)
    /\ statuses[c][k + 1].status = 200

EndsAtOnce(c) ==
    /\ requests[c] = attempt[c]
    /\ Len(statuses[c]) = attempt[c]
    /\ Len(sleeps[c]) = attempt[c] - 1

\* C4 as stated: a 429 on attempt n >= max_retries ends the call at once with
\* a rate-limited failure carrying the Retry-After value when the header is
\* present and current_delay_ms / 1000 otherwise.
C4_Original ==
    \A c \in Callers :
        (Finished(c) /\ LastStatus(c, 429))
        => /\ EndsAtOnce(c)
           /\ attempt[c] >= max_retries
           /\ result[c].kind = "RateLimited"
           /\ IF response[c].retry_after.present
              THEN /\ ParsesAsU64(response[c].retry_after.value)
                   /\ result[c].secs = DecimalValue(Digits(response[c].retry_after.value))
              ELSE result[c].secs = delay[c] \div 1000

\* C4 amended: a 429 on attempt n >= max_retries ends the call at once, with
\* no sleep and no further attempt, with a rate-limited failure carrying the
\* Retry-After value when the header is present and is an unsigned decimal
\* number (digits, with or without a plus sign in front), and current_delay_ms / 1000 for the delay in force otherwise, also
\* when the header is present with another value.  A 429 is followed by a
\* sleep only on an attempt below max_retries, so a service answering only
\* 429 gets max_retries requests (one when max_retries is 0).
C4_RateLimitExhaustion ==
    \A c \in Callers :
        /\ (Finished(c) /\ LastStatus(c, 429))
           => /\ EndsAtOnce(c)
              /\ attempt[c] >= max_retries
              /\ result[c].kind = "RateLimited"
              /\ result[c] = RateLimited(result[c].secs)
              /\ LET v == response[c].retry_after.value
                     ds == IF v # <<>> /\ v[1] = "+" THEN Tail(v) ELSE v
                 IN  IF /\ response[c].retry_after.present
                        /\ ds # <<>>
                        /\ \A i \in 1..Len(ds) : ds[i] \in DigitChars
                     THEN result[c].secs = DecimalValue(ds)
                     ELSE result[c].secs = delay[c] \div 1000
              /\ RateLimitedRun(c, Len(statuses[c]))
                 => requests[c] = IF max_retries >= 1 THEN max_retries ELSE 1
        /\ (pc[c] = "ex_sleep" /\ LastStatus(c, 429)) => attempt[c] < max_retries
        /\ (Finished(c) /\ result[c].kind = "RateLimited") => LastStatus(c, 429)

\* The second of two attempts is answered 429 with Retry-After: 3x, and the
\* failure carries 2000 / 1000.
C4_Witness ==
    /\ Finished("c1")
    /\ max_retries = 2 /\ attempt["c1"] = 2
    /\ retry_delay_ms = 1000
    /\ response["c1"].status = 429
    /\ response["c1"].retry_after = Header(<<"3", "x">>)
    /\ result["c1"] = RateLimited(2)

\* C5: a 5xx on an attempt below max_retries is followed by a sleep of the
\* delay in force, in ms; when the sleep ends the delay is doubled, the
\* attempt counted and the request sent again.  A 5xx on attempt n >=
\* max_retries ends the call with a server-error failure carrying that
\* response's status and body, with no sleep and no further attempt.
C5_ServerErrorRetry ==
    /\ [](\A c \in Callers :
            /\ (pc[c] = "ex_sleep" /\ Is5xx(response[c].status))
               => /\ attempt[c] < max_retries
                  /\ Len(sleeps[c]) = attempt[c]
                  /\ Last(sleeps[c]) = delay[c]
            /\ (Finished(c) /\ response[c].transport_ok /\ Is5xx(response[c].status))
               => /\ attempt[c] >= max_retries
                  /\ result[c] = ServerError(response[c].status, response[c].body.text)
                  /\ EndsAtOnce(c))
    /\ [][\A c \in Callers :
            (pc[c] = "ex_sleep" /\ pc'[c] # "ex_sleep" /\ Is5xx(response[c].status))
            => /\ pc'[c] = "ex_wait"
               /\ delay'[c] = 2 * delay[c]
               /\ attempt'[c] = attempt[c] + 1
               /\ requests'[c] = requests[c] + 1]_vars

\* Three 5xx answers with max_retries = 3 and 1500 ms: sleeps of 1500 and
\* 3000 ms, then the failure with the third answer's status and body.
C5_Witness ==
    /\ Finished("c1")
    /\ max_retries = 3 /\ attempt["c1"] = 3
    /\ Len(statuses["c1"]) = 3
    /\ \A i \in 1..3 : Is5xx(statuses["c1"][i].status)
    /\ sleeps["c1"] = <<1500, 3000>>
    /\ delay["c1"] = 6000
    /\ result["c1"] = ServerError(503, "e2")

\* C6: a 404 ends the call at once with a not-found failure carrying the
\* response body, whatever max_retries and the attempt are; no sleep and no
\* request follows it, and a first answer of 404 makes one request in all.
C6_NotFoundNeverRetried ==
    \A c \in Callers :
        /\ (op[c] = "execute" /\ pc[c] \in {"ex_wait", "ex_sleep"})
           => \A i \in 1..Len(statuses[c]) : statuses[c][i].status # 404
        /\ (Finished(c) /\ LastStatus(c, 404))
           => /\ result[c] = NotFound(response[c].body.text)
              /\ EndsAtOnce(c)
        /\ (Finished(c) /\ Len(statuses[c]) >= 1 /\ statuses[c][1].status = 404)
           => requests[c] = 1 /\ sleeps[c] = <<>> /\ result[c].kind = "NotFound"

\* A 404 on the second attempt, after a retried 429, with a budget of three.
C6_Witness ==
    /\ Finished("c1")
    /\ max_retries = 3 /\ attempt["c1"] = 2
    /\ statuses["c1"][1].status = 429
    /\ result["c1"] = NotFound("e2")
    /\ Len(sleeps["c1"]) = 1

\* A non-success status other than 429, 404 and 5xx.
OtherFailure(st) ==
    /\ ~(st >= 200 /\ st <= 299)
    /\ st \notin {429, 404}
    /\ ~Is5xx(st)

\* C7: a non-success status other than 429, 404 and 5xx ends the call on the
\* attempt where it occurs with a server-error failure carrying the status
\* and the body; no sleep and no request follows it.
C7_OtherStatusNeverRetried ==
    \A c \in Callers :
        /\ (op[c] = "execute" /\ pc[c] \in {"ex_wait", "ex_sleep"})
           => \A i \in 1..Len(statuses[c]) : ~OtherFailure(statuses[c][i].status)
        /\ (Finished(c) /\ response[c].transport_ok /\ OtherFailure(response[c].status))
           => /\ result[c] = ServerError(response[c].status, response[c].body.text)
              /\ EndsAtOnce(c)

\* A 401 on the second attempt, after a retried 500.
C7_Witness ==
    /\ Finished("c1")
    /\ attempt["c1"] = 2
    /\ statuses["c1"][1].status = 500
    /\ result["c1"] = ServerError(401, "e1")

\* A status no arm of the match names: not 200, 201, 204, 429, 404 or 5xx.
Unnamed(st) == st \notin {200, 201, 204, 429, 404} /\ ~Is5xx(st)

\* C8: the call returns a response exactly when the status of its last
\* attempt is 200, 201 or 204, and then without a sleep after that attempt;
\* every status outside 200, 201, 204, 429, 404 and 5xx, 202 and the
\* redirects among them, ends the call where it first occurs with a
\* server-error failure.
C8_SuccessClassification ==
    \A c \in Callers :
        /\ Finished(c)
           => /\ result[c].kind = "Ok"
                 <=> (response[c].transport_ok /\ response[c].status \in {200, 201, 204})
              /\ result[c].kind = "Ok"
                 => result[c] = OkResponse(response[c].status) /\ EndsAtOnce(c)
        /\ (op[c] = "execute" /\ pc[c] # "idle")
           => \A i \in 1..Len(statuses[c]) : ~Unnamed(statuses[c][i].status)
        /\ (Finished(c) /\ response[c].transport_ok /\ Unnamed(response[c].status))
           => /\ result[c].kind = "ServerError"
              /\ result[c].status = response[c].status
              /\ EndsAtOnce(c)

\* A 202 on the second attempt is a server-error failure, not a success.
C8_Witness ==
    /\ Finished("c1")
    /\ attempt["c1"] = 2
    /\ result["c1"].kind = "ServerError"
    /\ result["c1"].status = 202

(***************************************************************************)
(* Properties of the page walker, under SpecWalk and SpecWalkFair.         *)
(***************************************************************************)
\* A fetch_all_pages call has returned its records.
Walked(c) == pc[c] = "idle" /\ op[c] = "fetch_all_pages" /\ result[c].kind = "Ok"

\* The records of a sequence of pages, page after page.
RECURSIVE Concat(_)
Concat(pages) ==
    IF pages = <<>> THEN <<>>
    ELSE Concat(SubSeq(pages, 1, Len(pages) - 1)) \o Last(pages).value

\* C9: when the service has sent N >= 1 pages, every one but the last with a
\* continuation link, and every page fetch succeeded, fetch_all_pages has
\* made N page fetches and returns the records of the N pages in the order
\* the pages arrived and the order they have inside each page.
C9_PageWalkResult ==
    \A c \in Callers :
        Walked(c)
        => /\ Len(sent[c]) >= 1
           /\ fetches[c] = Len(sent[c])
           /\ result[c] = OkRecords(Concat(sent[c]))

\* Two pages, <<r2, r1>> then <<r1>>: two fetches, three records in order.
C9_Witness ==
    /\ Walked("c1")
    /\ fetches["c1"] = 2
    /\ sent["c1"][1].value = <<"r2", "r1">>
    /\ result["c1"].records = <<"r2", "r1", "r1">>

\* The answer to a page fetch of the walk has arrived: a page with link l.
PageArrived(c, l) ==
    /\ op[c] = "fetch_all_pages" /\ pc[c] = "fp_decode"
    /\ response[c].body.decodable
    /\ response[c].body.next_link = l

WalkGetSent(c) ==
    op[c] = "fetch_all_pages" /\ pc[c] # "ex_wait" /\ pc'[c] = "ex_wait"

\* C11: the GETs of a page walk made before any page has arrived go to base
\* endpoint + entity name + query string of the options; every GET made after
\* a page has arrived goes to exactly the continuation link of the page that
\* arrived last, whatever the options are.
C11_UrlSelection ==
    [][\A c \in Callers :
          WalkGetSent(c)
          => /\ url'[c] = url[c]
             /\ IF sent[c] = <<>>
                THEN /\ url[c] = <<Endpoint, entity[c]>>
                                  \o to_query_string(options[c], product)
                     /\ options[c] = DefaultOptions => url[c] = <<Endpoint, entity[c]>>
                ELSE url[c] = <<Last(sent[c]).next_link>>]_vars

\* The second page of a walk with $top and cross-company set is asked for
\* at the link L2 of the first page and nothing else.
C11_Witness ==
    /\ op["c1"] = "fetch_all_pages" /\ pc["c1"] = "ex_wait"
    /\ product = "Finops"
    /\ options["c1"].top = PresentNum(10) /\ options["c1"].cross_company
    /\ Len(sent["c1"]) = 1 /\ sent["c1"][1].next_link = "L2"
    /\ url["c1"] = <<"L2">>

(***************************************************************************)
(* Properties of a page fetch, under SpecWalk.                             *)
(***************************************************************************)
\* The caller is inside fetch_entity_page, called alone or by the walk.
InPageFetch(c) == op[c] \in {"fetch_entity_page", "fetch_all_pages"}

\* The caller's step ends its call with the failure kind.
FailsWith(c, kind) == pc'[c] = "idle" /\ result'[c].kind = kind

\* C14: inside a page fetch a sleep and a second request follow only a 429
\* or 5xx answer on an attempt below max_retries; a failed token acquisition,
\* a failed transport of the GET, a body that does not decode, a 404 and any
\* other non-success status end the call in the step in which they occur, so
\* with no retry and no sleep.
C14_PropagationPolicy ==
    [][\A c \in Callers :
          InPageFetch(c)
          => /\ (pc[c] # "ex_sleep" /\ pc'[c] = "ex_sleep")
                => /\ pc[c] = "ex_wait"
                   /\ response'[c].status = 429 \/ Is5xx(response'[c].status)
                   /\ attempt[c] < max_retries
             /\ (pc[c] # "ex_wait" /\ pc'[c] = "ex_wait")
                => pc[c] \in {"ex_enter", "ex_sleep"}
             /\ (pc[c] # "ac_wait" /\ pc'[c] = "ac_wait") => pc[c] = "ac_post"
             /\ (pc[c] # "ac_post" /\ pc'[c] = "ac_post") => pc[c] = "gt_check"
             /\ (pc[c] = "ac_wait" /\ pc'[c] \notin {"ac_wait", "ac_wlock"})
                => /\ FailsWith(c, "AuthError")
                   /\ result'[c].auth \in {"HttpError", "TokenRequestFailed", "ParseError"}
             /\ (pc[c] = "ex_wait" /\ pc'[c] \notin {"ex_wait", "ex_sleep", "fp_decode"})
                => LET r == response'[c]
                   IN  /\ (~r.transport_ok) => FailsWith(c, "HttpError")
                       /\ (r.transport_ok /\ r.status = 404) => FailsWith(c, "NotFound")
                       /\ (r.transport_ok /\ r.status = 429)
                          => FailsWith(c, "RateLimited") /\ attempt[c] >= max_retries
                       /\ (r.transport_ok /\ Is5xx(r.status))
                          => FailsWith(c, "ServerError") /\ attempt[c] >= max_retries
                       /\ (r.transport_ok /\ r.status \notin {200, 201, 204, 404, 429}
                              /\ ~Is5xx(r.status))
                          => FailsWith(c, "ServerError")
                       /\ pc'[c] = "idle"
             /\ (pc[c] = "ex_wait" /\ pc'[c] \in {"ex_sleep", "fp_decode"})
                => response'[c].transport_ok
                   /\ response'[c].status \in {200, 201, 204, 429, 500, 503}
             /\ (pc[c] = "fp_decode" /\ pc'[c] # "fp_decode"
                   /\ ~response[c].body.decodable)
                => FailsWith(c, "ParseError")]_vars

\* A page walk ended by the token endpoint's 401 at its first page: one
\* token request, one page fetch, the failure returned.
C14_Witness ==
    /\ op["c1"] = "fetch_all_pages" /\ pc["c1"] = "idle"
    /\ result["c1"].kind = "AuthError"
    /\ result["c1"].auth = "TokenRequestFailed" /\ result["c1"].status = 401
    /\ token_requests = 1 /\ fetches["c1"] = 1

\* The caller is inside get_token, acquire_token included.
InGetToken(c) == pc[c] \in {"gt_lock", "gt_check", "ac_post", "ac_wait",
                            "ac_wlock", "ac_store"}

\* C26: a page fetch calls get_token first, then execute_with_retry with the
\* token it got, then decodes the body, and only then are the records of the
\* page appended; get_token is called as the page fetch begins and at no
\* other point, so once for a page however many attempts the page takes; and
\* when get_token fails the call returns the authentication failure and no
\* GET has been sent for the page.
C26_PageStepOrder ==
    [][\A c \in Callers :
          InPageFetch(c) \/ pc[c] = "idle"
          => /\ (pc[c] # "gt_lock" /\ pc'[c] = "gt_lock")
                => /\ pc[c] \in {"idle", "fa_loop"}
                   /\ requests'[c] = 0
                   /\ pc[c] = "fa_loop" => fetches'[c] = fetches[c] + 1
             /\ (pc[c] = "fa_loop" /\ pc'[c] # "fa_loop") => pc'[c] = "gt_lock"
             /\ (pc[c] = "idle" /\ op'[c] = "fetch_entity_page" /\ pc'[c] # "idle")
                => pc'[c] = "gt_lock"
             /\ (pc[c] # "ex_enter" /\ pc'[c] = "ex_enter")
                => /\ pc[c] \in {"gt_check", "ac_store"}
                   /\ bearer'[c] = IF pc[c] = "gt_check"
                                    THEN token_cache.access_token
                                    ELSE token_response[c].access_token
                   /\ bearer'[c] # 0
             /\ (pc[c] # "ex_wait" /\ pc'[c] = "ex_wait")
                => pc[c] \in {"ex_enter", "ex_sleep"} /\ bearer'[c] = bearer[c]
             /\ (pc[c] # "fp_decode" /\ pc'[c] = "fp_decode")
                => pc[c] = "ex_wait" /\ response'[c].status \in {200, 201, 204}
             /\ (pc[c] # "idle" /\ (sent'[c] # sent[c]
                                      \/ Len(all_records'[c]) > Len(all_records[c])
                                      \/ result'[c].records # <<>>))
                => /\ pc[c] = "fp_decode" /\ response[c].body.decodable
                   /\ IF op[c] = "fetch_all_pages"
                      THEN sent'[c] = Append(sent[c], PageOf(OkPage(response[c].body)))
                      ELSE result'[c] = OkPage(response[c].body)
             /\ (InGetToken(c) /\ pc'[c] = "idle")
                => /\ result'[c].kind = "AuthError" /\ result'[c].records = <<>>
                   /\ requests[c] = 0 /\ requests'[c] = 0]_vars

\* The first page of a walk took two attempts and one token request, its
\* records are appended and the walk is at the head of its loop again.
C26_Witness ==
    /\ op["c1"] = "fetch_all_pages" /\ pc["c1"] = "fa_loop" /\ page["c1"] = 1
    /\ Len(sleeps["c1"]) = 1 /\ token_requests = 1
    /\ Len(sent["c1"]) = 1 /\ all_records["c1"] = <<"r2", "r1">>

\* The caller is inside execute_with_retry.
InExecute(c) == pc[c] \in {"ex_enter", "ex_wait", "ex_sleep"}

\* C28: no step taken while the one caller is inside execute_with_retry
\* touches the credential store: the cache, its lock, the requests sent to
\* the token endpoint and the tokens issued stay as they are, whatever the
\* status of the answer (401 and 403 included) and however the clock has
\* moved; the call never goes from a retry into get_token; and every attempt
\* carries the token execute_with_retry was given.
C28_ExecutorLeavesStore ==
    [][\A c \in {"c1"} :
          InExecute(c)
          => /\ token_cache' = token_cache
             /\ lock_readers' = lock_readers /\ lock_writer' = lock_writer
             /\ token_requests' = token_requests /\ issued' = issued
             /\ ~InGetToken(c)'
             /\ InExecute(c)' => bearer'[c] = bearer[c]]_vars

\* A page fetch was answered 500, slept, and was answered 401 on its second
\* attempt, by which time the clock had passed the point where its token
\* stopped being usable: the call failed with the 401, one token was asked
\* for in all, and the cache still holds it.
C28_Witness ==
    /\ pc["c1"] = "idle" /\ InPageFetch("c1")
    /\ result["c1"].kind = "ServerError" /\ result["c1"].status = 401
    /\ Len(sleeps["c1"]) = 1
    /\ token_cache.some /\ ~CacheHit(token_cache, now)
    /\ token_cache.access_token = issued
    /\ token_requests = 1

\* The failures of ODataError a page fetch can return.
PageFailures == {"AuthError", "HttpError", "RateLimited", "NotFound",
                 "ServerError", "ParseError"}

\* C29: when a page fetch of fetch_all_pages fails, after any number of
\* pages that were fetched and appended, the call returns in that step, with
\* that failure and with none of the records gathered; a walk that has not
\* returned has handed nothing to its caller; and records are returned only
\* at a page without a continuation link, all pages together.
C29_AllOrNothing ==
    /\ [][\A c \in Callers :
            (op[c] = "fetch_all_pages" /\ pc[c] # "idle" /\ pc'[c] = "idle"
               /\ ~(pc[c] = "fp_decode" /\ response[c].body.decodable))
            => /\ result'[c].kind \in PageFailures
               /\ result'[c].records = <<>>
               /\ all_records'[c] = <<>>
               /\ sent'[c] = sent[c]]_vars
    /\ [](\A c \in Callers :
            op[c] = "fetch_all_pages"
            => /\ pc[c] # "idle" => result[c] = NoResult
               /\ pc[c] = "idle"
                  => \/ /\ result[c].kind \in PageFailures
                        /\ result[c].records = <<>>
                     \/ /\ result[c] = OkRecords(Concat(sent[c]))
                        /\ Last(sent[c]).next_link = NoLink)

\* The first page brought <<r2, r1>> and a link, the second page fetch was
\* answered 404: the walk returned NotFound and no record.
C29_Witness ==
    /\ op["c1"] = "fetch_all_pages" /\ pc["c1"] = "idle"
    /\ fetches["c1"] = 2 /\ Len(sent["c1"]) = 1
    /\ sent["c1"][1].value = <<"r2", "r1">>
    /\ result["c1"].kind = "NotFound" /\ result["c1"].records = <<>>

(***************************************************************************)
(* Properties of the attempts of a call, under SpecRetryFair.              *)
(***************************************************************************)
\* The larger of two numbers.
MaxOf(a, b) == IF a >= b THEN a ELSE b

\* The failures of ODataError an execute_with_retry call can return.
TypedFailures == {"HttpError", "RateLimited", "NotFound", "ServerError"}

\* C27: whatever the service answers, an execute_with_retry call sends at
\* most max(1, max_retries) GETs, one for each attempt, and then returns a
\* response or one of the failures of ODataError; with max_retries = 0 it
\* still sends one GET, never sleeps, and a 429 or 5xx answer to that GET is
\* returned as the failure at once.
C27_BoundedAttempts ==
    /\ [](\A c \in Callers :
            op[c] = "execute"
            => /\ requests[c] = attempt[c]
               /\ requests[c] <= MaxOf(1, max_retries)
               /\ Finished(c)
                  => /\ requests[c] >= 1
                     /\ result[c].kind \in {"Ok"} \cup TypedFailures
               /\ max_retries = 0
                  => /\ sleeps[c] = <<>> /\ pc[c] # "ex_sleep"
                     /\ (Finished(c) /\ LastStatus(c, 429))
                        => result[c].kind = "RateLimited"
                     /\ (Finished(c) /\ response[c].transport_ok
                           /\ Is5xx(response[c].status))
                        => result[c].kind = "ServerError")
    /\ \A c \in Callers :
          (op[c] = "execute" /\ pc[c] = "ex_enter") ~> Finished(c)

\* With max_retries = 0 the one GET was answered 429 and the call failed
\* without a sleep.
C27_Witness ==
    /\ max_retries = 0 /\ Finished("c1") /\ LastStatus("c1", 429)
    /\ result["c1"].kind = "RateLimited"
    /\ requests["c1"] = 1 /\ sleeps["c1"] = <<>>

(***************************************************************************)
(* Properties of the retry state, under SpecBudget.                        *)
(***************************************************************************)
\* C24: every execute_with_retry call begins with attempt 1 and the
\* configured delay, whatever the calls before it and beside it have done: in
\* a call the delay is retry_delay_ms * 2^(attempt-1) and the attempt never
\* passes the budget, a step of one caller leaves the other caller's attempt
\* and delay alone, a page walk can make max_retries - 1 retries on every one
\* of its pages, and no step changes max_retries or retry_delay_ms.
C24_RetryStatePerCall ==
    /\ [][/\ max_retries' = max_retries /\ retry_delay_ms' = retry_delay_ms
          /\ \A c \in Callers :
                /\ (pc[c] = "ex_enter" /\ pc'[c] # "ex_enter")
                   => /\ pc'[c] = "ex_wait"
                      /\ attempt'[c] = 1
                      /\ delay'[c] = retry_delay_ms
                /\ \A d \in Callers \ {c} :
                      pc'[c] # pc[c]
                      => attempt'[d] = attempt[d] /\ delay'[d] = delay[d]]_vars
    /\ [](\A c \in Callers :
            /\ pc[c] \in {"ex_wait", "ex_sleep"}
               => /\ attempt[c] >= 1 /\ attempt[c] <= max_retries
                  /\ delay[c] = retry_delay_ms * Pow2(attempt[c] - 1)
            /\ pc[c] = "ex_sleep"
               => Last(sleeps[c]) \in {delay[c], (delay[c] \div 1000) * 1000}
            /\ (op[c] = "fetch_all_pages" /\ pc[c] # "idle")
               => Len(sleeps[c]) <= page[c] * (max_retries - 1))

\* With max_retries = 2 and 1000 ms the walk of c1 retried its first page
\* and its second page, each after a sleep of the first delay, while the call
\* of c2 used up its two attempts.
C24_Witness ==
    /\ max_retries = 2 /\ retry_delay_ms = 1000
    /\ op["c1"] = "fetch_all_pages" /\ page["c1"] = 2
    /\ pc["c1"] = "ex_wait" /\ attempt["c1"] = 2 /\ delay["c1"] = 2000
    /\ sleeps["c1"] = <<1000, 1000>>
    /\ Finished("c2") /\ result["c2"].kind = "RateLimited" /\ attempt["c2"] = 2

(***************************************************************************)
(* Properties of fetch_metadata, under SpecMeta.                           *)
(***************************************************************************)
\* A fetch_metadata call has returned.
MetaReturned(c) ==
    op[c] = "fetch_metadata" /\ pc[c] = "idle" /\ result[c].kind # "None"

\* C16 as stated: every fetch_metadata call makes exactly one GET.
C16_Original ==
    \A c \in Callers : MetaReturned(c) => requests[c] = 1

\* C16 amended: a fetch_metadata call makes no GET when get_token fails and
\* exactly one GET otherwise, never sleeps and never sends a second one,
\* whatever max_retries is.  A status outside 200..299, 429 and 5xx included,
\* returns a server-error failure with that status and the body; a status in
\* 200..299 returns the body as text, JSON or not, unless reading it fails.
C16_MetadataSingleGet ==
    \A c \in Callers :
        /\ op[c] = "fetch_metadata"
           => /\ requests[c] <= 1
              /\ sleeps[c] = <<>>
              /\ pc[c] \notin {"ex_enter", "ex_wait", "ex_sleep", "fp_decode"}
        /\ MetaReturned(c)
           => /\ requests[c] = 0 <=> result[c].kind = "AuthError"
              /\ requests[c] = 1
                 => LET r == response[c]
                    IN  /\ (~r.transport_ok) => result[c] = Err("HttpError")
                        /\ (r.transport_ok /\ r.status \notin 200..299)
                           => \/ result[c] = ServerError(r.status, r.body.text)
                              \/ result[c] = ServerError(r.status, "")
                        /\ (r.transport_ok /\ r.status \in 200..299)
                           => \/ result[c] = OkText(r.body.text)
                              \/ result[c] = Err("HttpError")

\* With max_retries = 3 a 503 with a Retry-After header ends the call after
\* its one GET with the status and the body.
C16_Witness ==
    /\ MetaReturned("c1")
    /\ max_retries = 3
    /\ requests["c1"] = 1
    /\ response["c1"].status = 503 /\ response["c1"].retry_after.present
    /\ result["c1"] = ServerError(503, "e1")

(***************************************************************************)
(* Properties of the query builder, under SpecPure.                        *)
(***************************************************************************)
\* The call of to_query_string has returned.
QueryBuilt == call.fn = "to_query_string" /\ ret.done

\* The texts of strs one after the other with sep between them, from the
\* last to the first.
RECURSIVE Glue(_, _)
Glue(strs, sep) ==
    IF Len(strs) = 0 THEN <<>>
    ELSE IF Len(strs) = 1 THEN strs[1]
    ELSE Glue(SubSeq(strs, 1, Len(strs) - 1), sep) \o <<sep>> \o strs[Len(strs)]

\* The decimal text of the numbers the options of the model hold.
DecimalText(n) ==
    CASE n = 0 -> <<"0">> [] n = 5 -> <<"5">> [] n = 10 -> <<"1", "0">>

\* The eight parameters in the order of the output: whether each is set, and
\* its text.
QueryParameters(o, prod) ==
    << [set |-> o.select.some, text |-> <<"$select=">> \o Glue(o.select.v, ",")],
       [set |-> o.filter.some, text |-> <<"$filter=">> \o o.filter.v],
       [set |-> o.top.some, text |-> <<"$top=">> \o DecimalText(o.top.v)],
       [set |-> o.skip.some, text |-> <<"$skip=">> \o DecimalText(o.skip.v)],
       [set |-> o.orderby.some, text |-> <<"$orderby=">> \o o.orderby.v],
       [set |-> o.expand.some, text |-> <<"$expand=">> \o Glue(o.expand.v, ",")],
       [set |-> o.count, text |-> <<"$count=true">>],
       [set |-> o.cross_company /\ prod = "Finops", text |-> <<"cross-company=true">>] >>

\* C17: to_query_string gives the parameters that are set, and no other, in
\* the order $select, $filter, $top, $skip, $orderby, $expand, $count=true,
\* cross-company=true: the empty text when none is emitted, else "?" and the
\* emitted parameters with "&" between them, lists joined by "," and every
\* value as it was given.
C17_QueryBuilderOutput ==
    QueryBuilt
    => LET ps == QueryParameters(call.options, call.product)
           emitted == SelectSeq(ps, LAMBDA e : e.set)
           texts == [i \in 1..Len(emitted) |-> emitted[i].text]
       IN  /\ (\A i \in 1..Len(ps) : ~ps[i].set) <=> ret.value = <<>>
           /\ emitted # <<>> => ret.value = <<"?">> \o Glue(texts, "&")
           /\ Cardinality({i \in 1..Len(ret.value) : ret.value[i] = "&"})
                 = IF emitted = <<>> THEN 0 ELSE Len(emitted) - 1

\* select [name, accountid], the filter, top 10, skip 5, count and, for
\* Finops, cross-company give the six parameters in their order.
C17_Witness ==
    /\ QueryBuilt
    /\ call.product = "Finops"
    /\ ret.value = <<"?", "$select=", "name", ",", "accountid", "&",
                     "$filter=", "name eq 'a&b'", "&", "$top=", "1", "0", "&",
                     "$skip=", "5", "&", "$count=true", "&", "cross-company=true">>

\* The text holds the cross-company parameter.
HasCrossCompany(text) == \E i \in 1..Len(text) : text[i] = "cross-company=true"

\* C18: the output holds cross-company=true exactly when the flag is set and
\* the product is Finops; for Dataverse the output is what it is without the
\* flag, and options with nothing but the flag give the empty text.
C18_CrossCompanyGating ==
    QueryBuilt
    => /\ HasCrossCompany(ret.value)
          <=> (call.options.cross_company /\ call.product = "Finops")
       /\ call.product = "Dataverse"
          => ret.value = to_query_string([call.options EXCEPT !.cross_company = FALSE],
                                         "Dataverse")
       /\ (call.product = "Dataverse"
             /\ call.options = [DefaultOptions EXCEPT !.cross_company = TRUE])
          => ret.value = <<>>
       /\ (call.product = "Finops"
             /\ call.options = [DefaultOptions EXCEPT !.cross_company = TRUE])
          => ret.value = <<"?", "cross-company=true">>

\* Dataverse, only the flag set: the empty text.
C18_Witness ==
    /\ QueryBuilt
    /\ call.product = "Dataverse"
    /\ call.options = [DefaultOptions EXCEPT !.cross_company = TRUE]
    /\ ret.value = <<>>

(***************************************************************************)
(* Properties of the backoff delay, under SpecPure.                        *)
(***************************************************************************)
\* C25: at attempt n the delay of an execute call is retry_delay_ms *
\* 2^(n-1), whatever the number of doublings: the bits of the delay are the
\* bits of retry_delay_ms moved up n - 1 places, none of them lost.
C25_BackoffArithmetic ==
    (call.fn = "delay" /\ ret.done)
    => /\ ~ret.value.panicked
       /\ ret.value.bits \o Zeros(call.attempt - 1)
             = Zeros(call.attempt - 1) \o U64(call.base, call.shift)

(***************************************************************************)
(* Properties of the token request, under SpecPure.                        *)
(***************************************************************************)
\* C19: for Adfs the token endpoint is the configured token url when there
\* is one and https://<tenant>/adfs/oauth2/token when there is none; for
\* AzureAd it is https://login.microsoftonline.com/<tenant>/oauth2/v2.0/token
\* with or without a configured token url.
C19_TokenEndpoint ==
    (call.fn = "token_endpoint" /\ ret.done)
    => LET cfg == call.config
       IN  /\ (cfg.auth_type = "Adfs" /\ cfg.token_url.some)
              => ret.value = cfg.token_url.v
           /\ (cfg.auth_type = "Adfs" /\ ~cfg.token_url.some)
              => ret.value = <<"https://", cfg.tenant_id, "/adfs/oauth2/token">>
           /\ cfg.auth_type = "AzureAd"
              => ret.value = <<"https://login.microsoftonline.com/", cfg.tenant_id,
                               "/oauth2/v2.0/token">>

\* AzureAd with a token url configured: the url is not used.
C19_Witness ==
    /\ call.fn = "token_endpoint" /\ ret.done
    /\ call.config.auth_type = "AzureAd"
    /\ call.config.token_url.some
    /\ call.config.tenant_id = "contoso"
    /\ ret.value = <<"https://login.microsoftonline.com/", "contoso",
                     "/oauth2/v2.0/token">>

\* The values the form body gives to a parameter name.
ParamValues(params, name) ==
    {params[i][2] : i \in {j \in 1..Len(params) : params[j][1] = name}}

\* C20: both variants send grant_type=client_credentials, the client id and
\* the client secret.  AzureAd adds a scope, the resource followed by
\* "/.default", or by ".default" alone when the resource ends in "/", and no
\* resource parameter; Adfs adds a resource parameter, the configured resource
\* when there is one and the resource passed in when there is none, and no
\* scope.
C20_TokenRequestShape ==
    (call.fn = "acquire_token_params" /\ ret.done)
    => LET cfg == call.config
           res == call.resource
           ps == ret.value
       IN  /\ Len(ps) = 4
           /\ ParamValues(ps, "grant_type") = {<<"client_credentials">>}
           /\ ParamValues(ps, "client_id") = {cfg.client_id}
           /\ ParamValues(ps, "client_secret") = {cfg.client_secret}
           /\ cfg.auth_type = "AzureAd"
              => /\ ParamValues(ps, "resource") = {}
                 /\ ParamValues(ps, "scope") =
                       {IF res # <<>> /\ res[Len(res)] = "/"
                        THEN res \o <<".default">>
                        ELSE res \o <<"/", ".default">>}
           /\ cfg.auth_type = "Adfs"
              => /\ ParamValues(ps, "scope") = {}
                 /\ ParamValues(ps, "resource") =
                       {IF cfg.resource.some THEN cfg.resource.v ELSE res}

\* AzureAd and a resource that ends in a slash: the scope has one slash.
C20_Witness ==
    /\ call.fn = "acquire_token_params" /\ ret.done
    /\ call.config.auth_type = "AzureAd"
    /\ call.resource = <<"https://org.example", "/">>
    /\ ParamValues(ret.value, "scope") = {<<"https://org.example", "/", ".default">>}

(***************************************************************************)
(* Properties of the stdio loop, under SpecLoop.                           *)
(***************************************************************************)
\* What a response line shows of the line it answers: the id, and whether
\* it is the parse error.
Shape(resp) == [id |-> resp.id, parse_error |-> resp.code = -32700]

\* The responses due for lines, in order: one with its id for a request that
\* has an id, one parse error for a line of the kinds in unparsable, none for
\* a blank line, a notification or any other line.
RECURSIVE DueFor(_, _)
DueFor(lines, unparsable) ==
    IF lines = <<>> THEN <<>>
    ELSE LET l == Last(lines)
             before == DueFor(SubSeq(lines, 1, Len(lines) - 1), unparsable)
         IN  IF l.kind = "request" /\ l.id.some
             THEN Append(before, [id |-> l.id, parse_error |-> FALSE])
             ELSE IF l.kind \in unparsable
             THEN Append(before, [id |-> AbsentNum, parse_error |-> TRUE])
             ELSE before

\* The lines read before the one the loop is working on.
LinesDone ==
    IF loop_pc \in {"handle", "send"}
    THEN SubSeq(lines_in, 1, Len(lines_in) - 1) ELSE lines_in

\* The standard output holds exactly the response lines due, each complete.
StdoutIs(due) ==
    /\ Len(stdout) = Len(due)
    /\ \A i \in 1..Len(due) : stdout[i].newline /\ Shape(stdout[i].response) = due[i]

\* C31 as stated: whenever the loop is about to read, or has ended, the
\* standard output holds one response line for every request with an id and
\* one -32700 line for every line that does not parse, in the order of the
\* lines, and nothing for blank lines and notifications; while a line is
\* worked on the output holds the responses to the lines before it; and the
\* loop has ended only if the last read met the end of the input.
C31_Original ==
    /\ StdoutIs(DueFor(LinesDone, {"unparsable", "not_utf8"}))
    /\ loop_pc \in {"stopped", "failed"} => read_result = "eof"

\* The responses handed to send_response so far, as their shapes.
SentShapes == [i \in 1..Len(send_results) |-> Shape(send_results[i].response)]

\* C31: lines are read only at the head of the loop, with no request and no
\* response in hand; by the time the next line is read, exactly one response
\* has been handed to send_response for every request with an id and one
\* -32700 error for every line that is text but no request, in the order of
\* the lines, and none for a blank line or a notification; a send_response
\* that returns Ok has put exactly that response on the standard output as
\* one whole line, so that with every write succeeding the output is the
\* responses due, line by line; and the loop ends when a read meets the end
\* of the input or fails, and at no other point.
C31_StdioDiscipline ==
    /\ [](/\ SentShapes = DueFor(LinesDone, {"unparsable"})
          /\ loop_pc \in {"read", "stopped", "failed"}
             => request = NoRequest /\ rpc_response = NoRpcResponse
          /\ loop_pc = "stopped" <=> read_result = "eof"
          /\ loop_pc = "failed" <=> read_result \in {"io_error", "not_utf8"}
          /\ (\A i \in 1..Len(send_results) : send_results[i].result = "Ok")
             => StdoutIs(DueFor(LinesDone, {"unparsable"})))
    /\ [][/\ lines_in' # lines_in => loop_pc = "read"
          /\ read_result' # read_result => loop_pc = "read"
          /\ (send_results' # send_results /\ Last(send_results').result = "Ok")
             => stdout' = Append(stdout, [response |-> rpc_response, newline |-> TRUE])
          /\ loop_pc \in {"stopped", "failed"} => loop_pc' = loop_pc]_vars

\* The input was a ping with id 2, a line that is no request, a tools/call
\* without an id, and its end: the output is the response to 2 and the
\* -32700 line, and the loop has stopped.
C31_Witness ==
    /\ loop_pc = "stopped"
    /\ lines_in = <<InputLine("request", PresentNum(2), "ping", "none"),
                    InputLine("unparsable", AbsentNum, "", "none"),
                    InputLine("request", AbsentNum, "tools/call", "valid")>>
    /\ stdout = <<[response |-> RpcSuccess(PresentNum(2), "empty"), newline |-> TRUE],
                  [response |-> RpcError(AbsentNum, -32700), newline |-> TRUE]>>

=============================================================================
